---------------------------- MODULE Spec2Model ----------------------------
(***************************************************************************)
(* The weekly scheduling engine of the Life OS agent.                      *)
(*                                                                         *)
(* The repository holds the engine twice:                                  *)
(*   Root_*  models src/life-os-agent/src/lifeos/       (dict events,      *)
(*           one sweep over the whole week, slots shrunk in place);        *)
(*   Apps_*  models src/apps/life-os-agent/src/lifeos/  (ScheduledEvent    *)
(*           objects, one sweep per day 06:00-22:00, slots split).         *)
(*                                                                         *)
(* Time is an integer number of seconds counted from Monday 00:00 of the   *)
(* week under study (a datetime); a date is the number of whole days from  *)
(* that Monday.  Python dicts are functions with a string domain, lists    *)
(* are sequences, str values that the code parses or searches are          *)
(* sequences of one-character strings.                                     *)
(***************************************************************************)
EXTENDS Integers, Sequences, FiniteSets, TLC

VARIABLES
    variant,      \* "root" or "apps": which of the two engines is running
    config,       \* the LifeOSConfig the Scheduler was constructed with
    week_start,   \* the week_start argument of the calls
    events,       \* the caller's list of calendar events
    phase,        \* the last operation that returned
    query,        \* the arguments of the last get_available_slots call
    available,    \* the list returned by get_available_slots
    analysis,     \* the dict returned by analyze_scheduled_vs_required
    proposals,    \* the proposed sessions returned by propose_schedule
    coverage,     \* ScheduleProposal.coverage (apps engine only)
    booked,       \* how many events at the tail of `events` were created from proposals
    returned,     \* the value returned by the last call of any other method
    conversations \* LifeOSAgent._conversations: user id -> list of messages

vars == <<variant, config, week_start, events, phase, query, available,
          analysis, proposals, coverage, booked, returned, conversations>>

-----------------------------------------------------------------------------
(* Python and datetime primitives *)

None == "<None>"

Max(a, b) == IF a >= b THEN a ELSE b
Min(a, b) == IF a <= b THEN a ELSE b

\* int(x / 60) on a number of seconds: truncation toward zero
SecondsPerMinute == 60
IntDivTrunc(x, d) == IF x >= 0 THEN x \div d ELSE -((-x) \div d)

timedelta_minutes(m) == m * SecondsPerMinute
timedelta_hours(h) == h * 60 * SecondsPerMinute
timedelta_days(d) == d * 24 * 60 * SecondsPerMinute

\* time(h, m) as seconds after midnight; datetime.combine(date, time)
time_of(h, m) == timedelta_hours(h) + timedelta_minutes(m)
datetime_combine(d, t) == timedelta_days(d) + t

\* datetime.date(), datetime.hour, datetime.time()
date_of(dt) == dt \div timedelta_days(1)
time_part(dt) == dt % timedelta_days(1)
hour_of(dt) == time_part(dt) \div timedelta_hours(1)

\* strftime("%A").lower() of a datetime or of a date; day 0 is a Monday
DayNames == <<"monday", "tuesday", "wednesday", "thursday", "friday",
              "saturday", "sunday">>
day_name_of_date(d) == DayNames[(d % 7) + 1]
day_name(dt) == day_name_of_date(date_of(dt))

\* x in list
InSeq(x, s) == \E i \in 1..Len(s) : s[i] = x

\* dict.get(key, default)
Get(d, k, default) == IF k \in DOMAIN d THEN d[k] ELSE default
EmptyDict == <<>>

\* `sep in s`, s.split(sep), int(s) for a str given as a sequence of characters
HasChar(sep, s) == InSeq(sep, s)

RECURSIVE Split(_, _)
Split(s, sep) ==
    IF ~HasChar(sep, s) THEN <<s>>
    ELSE LET i == CHOOSE k \in 1..Len(s) :
                      s[k] = sep /\ \A j \in 1..(k - 1) : s[j] # sep
         IN  <<SubSeq(s, 1, i - 1)>> \o Split(SubSeq(s, i + 1, Len(s)), sep)

DigitValue(c) ==
    CASE c = "0" -> 0 [] c = "1" -> 1 [] c = "2" -> 2 [] c = "3" -> 3
      [] c = "4" -> 4 [] c = "5" -> 5 [] c = "6" -> 6 [] c = "7" -> 7
      [] c = "8" -> 8 [] c = "9" -> 9

RECURSIVE ParseInt(_)
ParseInt(s) ==
    IF Len(s) = 1 THEN DigitValue(s[1])
    ELSE 10 * ParseInt(SubSeq(s, 1, Len(s) - 1)) + DigitValue(s[Len(s)])

\* str.lower() and the substring test `a in b`
LowerChar(c) ==
    CASE c = "R" -> "r" [] c = "U" -> "u" [] c = "N" -> "n" [] c = "E" -> "e"
      [] c = "A" -> "a" [] c = "D" -> "d" [] c = "M" -> "m" [] c = "T" -> "t"
      [] OTHER -> c
Lower(s) == [i \in 1..Len(s) |-> LowerChar(s[i])]
IsSubstring(a, b) ==
    \E i \in 1..(Len(b) - Len(a) + 1) : SubSeq(b, i, i + Len(a) - 1) = a

\* a str | int field: ints are [int |-> n], strs are [str |-> characters]
PyInt(n) == [int |-> n]
PyStr(s) == [str |-> s]
IsInt(v) == "int" \in DOMAIN v

-----------------------------------------------------------------------------
(* Root engine: configuration accessors (life-os-agent/src/lifeos/config.py) *)

Daily == <<"d", "a", "i", "l", "y">>
Weekly == <<"w", "e", "e", "k", "l", "y">>

Root_get_duration_range(activity) ==
    LET d == activity.duration IN
    IF IsInt(d) THEN <<d.int, d.int>>
    ELSE IF HasChar("-", d.str)
         THEN LET parts == Split(d.str, "-")
              IN  <<ParseInt(parts[1]), ParseInt(parts[2])>>
         ELSE <<ParseInt(d.str), ParseInt(d.str)>>

Root_get_frequency_range(activity) ==
    LET f == activity.frequency IN
    IF IsInt(f) THEN <<f.int, f.int>>
    ELSE IF f.str = Daily THEN <<7, 7>>
    ELSE IF f.str = Weekly THEN <<1, 1>>
    ELSE IF HasChar("-", f.str)
         THEN LET parts == Split(f.str, "-")
              IN  <<ParseInt(parts[1]), ParseInt(parts[2])>>
         ELSE <<ParseInt(f.str), ParseInt(f.str)>>

\* fault injection: the tiers are checked from low to critical
Root_get_activity_priority_low_first(cfg, activity_id) ==
    IF InSeq(activity_id, cfg.priorities.low) THEN "low"
    ELSE IF InSeq(activity_id, cfg.priorities.medium) THEN "medium"
    ELSE IF InSeq(activity_id, cfg.priorities.high) THEN "high"
    ELSE IF InSeq(activity_id, cfg.priorities.critical) THEN "critical"
    ELSE "medium"

Root_get_activity_priority(cfg, activity_id) ==
    IF InSeq(activity_id, cfg.priorities.critical) THEN "critical"
    ELSE IF InSeq(activity_id, cfg.priorities.high) THEN "high"
    ELSE IF InSeq(activity_id, cfg.priorities.medium) THEN "medium"
    ELSE IF InSeq(activity_id, cfg.priorities.low) THEN "low"
    ELSE "medium"

-----------------------------------------------------------------------------
(* Root engine: scheduler (life-os-agent/src/lifeos/scheduler.py) *)

\* parse_time_of_day and get_work_hours (date: a datetime at 00:00 of the day);
\* <<>> stands for None
Root_parse_time_of_day(time_str) ==
    LET parts == Split(time_str, ":")
    IN  <<ParseInt(parts[1]), ParseInt(parts[2])>>

Root_get_work_hours(cfg, date) ==
    LET work == cfg.template.work
        s == Root_parse_time_of_day(work.start)
        e == Root_parse_time_of_day(work.end)
    IN  IF ~InSeq(day_name(date), work.days) THEN <<>>
        ELSE <<timedelta_days(date_of(date)) + time_of(s[1], s[2]),
               timedelta_days(date_of(date)) + time_of(e[1], e[2])>>

Root_TimeSlot(start, end, is_available) ==
    [start |-> start, end |-> end, is_available |-> is_available]

duration_minutes(slot) == IntDivTrunc(slot.end - slot.start, SecondsPerMinute)

overlaps(a, b) == a.start < b.end /\ b.start < a.end

\* the events that carry start.dateTime, as busy TimeSlots, in list order
RECURSIVE Root_busy_slots(_)
Root_busy_slots(existing_events) ==
    IF existing_events = <<>> THEN <<>>
    ELSE LET event == Head(existing_events)
             start == Get(event, "start", EmptyDict)
             end == Get(event, "end", EmptyDict)
             rest == Root_busy_slots(Tail(existing_events))
         IN  IF "dateTime" \in DOMAIN start
             THEN <<Root_TimeSlot(start.dateTime, end.dateTime, FALSE)>> \o rest
             ELSE rest

\* list.sort(key=lambda s: s.start): stable, ascending
RECURSIVE InsertByStart(_, _)
InsertByStart(sorted, x) ==
    IF sorted = <<>> THEN <<x>>
    ELSE IF sorted[Len(sorted)].start <= x.start THEN Append(sorted, x)
    ELSE Append(InsertByStart(SubSeq(sorted, 1, Len(sorted) - 1), x),
                sorted[Len(sorted)])

RECURSIVE SortByStart(_)
SortByStart(s) ==
    IF s = <<>> THEN <<>>
    ELSE InsertByStart(SortByStart(SubSeq(s, 1, Len(s) - 1)), s[Len(s)])

\* fault injection: the minimum is excluded
Root_gap_qualifies_strict(gap, min_duration) == duration_minutes(gap) > min_duration

\* `if gap.duration_minutes >= min_duration`
Root_gap_qualifies(gap, min_duration) == duration_minutes(gap) >= min_duration

\* the gap-finding loop over the sorted busy slots
RECURSIVE Root_find_gaps(_, _, _, _, _)
Root_find_gaps(busy_slots, i, current, min_duration, acc) ==
    IF i > Len(busy_slots) THEN [current |-> current, available_slots |-> acc]
    ELSE LET busy == busy_slots[i]
             gap == Root_TimeSlot(current, busy.start, TRUE)
             acc2 == IF current < busy.start /\ Root_gap_qualifies(gap, min_duration)
                     THEN Append(acc, gap) ELSE acc
         IN  Root_find_gaps(busy_slots, i + 1, Max(current, busy.end),
                            min_duration, acc2)

Root_DefaultMinDuration == 15

Root_get_available_slots(existing_events, start_date, end_date, min_duration) ==
    LET busy_slots == SortByStart(Root_busy_slots(existing_events))
        swept == Root_find_gaps(busy_slots, 1, start_date, min_duration, <<>>)
        gap == Root_TimeSlot(swept.current, end_date, TRUE)
    IN  IF swept.current < end_date /\ Root_gap_qualifies(gap, min_duration)
        THEN Append(swept.available_slots, gap)
        ELSE swept.available_slots

\* does a slot pass the day and time-of-day checks of filter_slots_by_preference
Root_matches_pref(slot, prefs) ==
    \E i \in 1..Len(prefs) :
        LET pref == prefs[i]
            hour == hour_of(slot.start)
        IN  \/ pref = "morning" /\ 5 <= hour /\ hour < 12
            \/ pref = "afternoon" /\ 12 <= hour /\ hour < 17
            \/ pref = "evening" /\ 17 <= hour /\ hour < 22
            \/ pref \in {"flexible", "any"}

Root_slot_kept(slot, time_preference, day_preference) ==
    /\ day_preference # <<>> => InSeq(day_name(slot.start), day_preference)
    /\ time_preference # <<>> => Root_matches_pref(slot, time_preference)

\* filter_slots_by_preference as the indices (into slots) of the retained slots:
\* the returned list holds the very TimeSlot objects of the input list
RECURSIVE Root_filter_indices(_, _, _, _)
Root_filter_indices(slots, i, time_preference, day_preference) ==
    IF i > Len(slots) THEN <<>>
    ELSE (IF Root_slot_kept(slots[i], time_preference, day_preference)
          THEN <<i>> ELSE <<>>)
         \o Root_filter_indices(slots, i + 1, time_preference, day_preference)

Root_filter_slots_by_preference(slots, time_preference, day_preference) ==
    LET idx == Root_filter_indices(slots, 1, time_preference, day_preference)
    IN  [k \in 1..Len(idx) |-> slots[idx[k]]]

Root_requirement(cfg, activity) ==
    LET freq == Root_get_frequency_range(activity)
        dur == Root_get_duration_range(activity)
    IN  [activity |-> activity,
         min_sessions |-> freq[1], max_sessions |-> freq[2],
         min_duration |-> dur[1], max_duration |-> dur[2],
         total_min_minutes |-> freq[1] * dur[1],
         total_max_minutes |-> freq[2] * dur[2],
         priority |-> Root_get_activity_priority(cfg, activity.id)]

\* a dict keyed by activity id, kept as the sequence of its values in insertion order
Root_calculate_weekly_requirements(cfg) ==
    [i \in 1..Len(cfg.activities) |-> Root_requirement(cfg, cfg.activities[i])]

Root_event_tag(event) ==
    Get(Get(Get(event, "extendedProperties", EmptyDict), "private", EmptyDict),
        "lifeos_activity_id", None)

RECURSIVE Root_tally(_, _)
Root_tally(existing_events, activity_id) ==
    IF existing_events = <<>> THEN [sessions |-> 0, minutes |-> 0]
    ELSE LET event == Head(existing_events)
             rest == Root_tally(Tail(existing_events), activity_id)
         IN  IF Root_event_tag(event) = activity_id
             THEN [sessions |-> rest.sessions + 1,
                   minutes |-> rest.minutes
                       + IntDivTrunc(event.end.dateTime - event.start.dateTime,
                                     SecondsPerMinute)]
             ELSE rest

\* fault injection: the difference is not clamped at 0
Root_sessions_deficit_unclamped(min_sessions, scheduled_sessions) ==
    min_sessions - scheduled_sessions

\* "sessions_deficit": max(0, req["min_sessions"] - scheduled_sessions)
Root_sessions_deficit(min_sessions, scheduled_sessions) ==
    Max(0, min_sessions - scheduled_sessions)

Root_analyze_scheduled_vs_required(cfg, existing_events, wk_start, wk_end) ==
    LET requirements == Root_calculate_weekly_requirements(cfg)
    IN  [i \in 1..Len(requirements) |->
            LET req == requirements[i]
                t == Root_tally(existing_events, req.activity.id)
            IN  [activity |-> req.activity,
                 required_sessions |-> <<req.min_sessions, req.max_sessions>>,
                 required_minutes |-> <<req.total_min_minutes, req.total_max_minutes>>,
                 scheduled_sessions |-> t.sessions,
                 scheduled_minutes |-> t.minutes,
                 sessions_deficit |-> Root_sessions_deficit(req.min_sessions, t.sessions),
                 sessions_surplus |-> Max(0, t.sessions - req.max_sessions),
                 minutes_deficit |-> Max(0, req.total_min_minutes - t.minutes),
                 priority |-> req.priority]]

\* fault injection: the tiers are ranked from low to critical
Root_priority_order_reversed(priority) ==
    CASE priority = "critical" -> 3 [] priority = "high" -> 2
      [] priority = "medium" -> 1 [] priority = "low" -> 0 [] OTHER -> 2

\* priority_order.get(priority, 2)
Root_priority_order(priority) ==
    CASE priority = "critical" -> 0 [] priority = "high" -> 1
      [] priority = "medium" -> 2 [] priority = "low" -> 3 [] OTHER -> 2

\* the sort key (priority rank, -deficit), compared as Python compares tuples
Root_key_le(x, y) ==
    LET px == Root_priority_order(x.priority)
        py == Root_priority_order(y.priority)
    IN  px < py \/ (px = py /\ (-x.sessions_deficit) <= (-y.sessions_deficit))

RECURSIVE Root_insert_by_key(_, _)
Root_insert_by_key(sorted, x) ==
    IF sorted = <<>> THEN <<x>>
    ELSE IF Root_key_le(sorted[Len(sorted)], x) THEN Append(sorted, x)
    ELSE Append(Root_insert_by_key(SubSeq(sorted, 1, Len(sorted) - 1), x),
                sorted[Len(sorted)])

RECURSIVE Root_sorted_by_key(_)
Root_sorted_by_key(s) ==
    IF s = <<>> THEN <<>>
    ELSE Root_insert_by_key(Root_sorted_by_key(SubSeq(s, 1, Len(s) - 1)), s[Len(s)])

Root_activities_to_schedule(an) ==
    Root_sorted_by_key(SelectSeq(an, LAMBDA data : data.sessions_deficit > 0))

\* fault injection: a slot of exactly the minimum duration is passed over
Root_fits_strict(slot, min_dur) == duration_minutes(slot) > min_dur

\* `if slot.duration_minutes >= min_dur`
Root_fits(slot, min_dur) == duration_minutes(slot) >= min_dur

\* fault injection: the booked slot is left as it was
Root_shrink_skipped(slot, end_time) == slot

\* `slot.start = end_time`: the slot object is shrunk in place
Root_shrink(slot, end_time) == [slot EXCEPT !.start = end_time]

\* `for slot in preferred_slots`: idx lists the positions in the available list
\* of the slots walked; st = [available, proposals, needed_sessions]
RECURSIVE Root_book(_, _, _, _, _)
Root_book(st, idx, k, data, min_dur) ==
    IF k > Len(idx) \/ st.needed_sessions <= 0 THEN st
    ELSE LET slot == st.available[idx[k]] IN
         IF Root_fits(slot, min_dur)
         THEN LET duration == Min(min_dur, duration_minutes(slot))
                  end_time == slot.start + timedelta_minutes(duration)
                  proposal == [activity |-> data.activity,
                               start |-> slot.start,
                               end |-> end_time,
                               priority |-> data.priority]
              IN  Root_book([available |-> [st.available EXCEPT
                                               ![idx[k]] = Root_shrink(slot, end_time)],
                             proposals |-> Append(st.proposals, proposal),
                             needed_sessions |-> st.needed_sessions - 1],
                            idx, k + 1, data, min_dur)
         ELSE Root_book(st, idx, k + 1, data, min_dur)

\* fault injection: one session more than the deficit is looked for
Root_schedule_activity_one_more(st, data) ==
    LET activity == data.activity
        min_dur == Root_get_duration_range(activity)[1]
        filtered == Root_filter_indices(st.available, 1, activity.time_preference,
                                        activity.days_preference)
        preferred_slots == IF filtered = <<>>
                           THEN [i \in 1..Len(st.available) |-> i]
                           ELSE filtered
        done == Root_book([available |-> st.available, proposals |-> st.proposals,
                           needed_sessions |-> data.sessions_deficit + 1],
                          preferred_slots, 1, data, min_dur)
    IN  [available |-> done.available, proposals |-> done.proposals]

\* the body of `for activity_id, data in activities_to_schedule`
Root_schedule_activity(st, data) ==
    LET activity == data.activity
        min_dur == Root_get_duration_range(activity)[1]
        filtered == Root_filter_indices(st.available, 1, activity.time_preference,
                                        activity.days_preference)
        preferred_slots == IF filtered = <<>>
                           THEN [i \in 1..Len(st.available) |-> i]
                           ELSE filtered
        done == Root_book([available |-> st.available, proposals |-> st.proposals,
                           needed_sessions |-> data.sessions_deficit],
                          preferred_slots, 1, data, min_dur)
    IN  [available |-> done.available, proposals |-> done.proposals]

RECURSIVE Root_schedule_all(_, _, _)
Root_schedule_all(st, todo, k) ==
    IF k > Len(todo) THEN st
    ELSE Root_schedule_all(Root_schedule_activity(st, todo[k]), todo, k + 1)

Root_propose_schedule(cfg, existing_events, wk_start) ==
    LET wk_end == wk_start + timedelta_days(7)
        an == Root_analyze_scheduled_vs_required(cfg, existing_events, wk_start, wk_end)
        avail == Root_get_available_slots(existing_events, wk_start, wk_end,
                                          Root_DefaultMinDuration)
        done == Root_schedule_all([available |-> avail, proposals |-> <<>>],
                                  Root_activities_to_schedule(an), 1)
    IN  done.proposals

\* ScheduleProposal.to_event_body: the keyword arguments of create_event
Root_to_event_body(proposal) ==
    [summary |-> proposal.activity.name,
     start |-> proposal.start,
     end |-> proposal.end,
     extended_properties |->
        [private |-> [lifeos_activity_id |-> proposal.activity.id,
                      lifeos_category |-> proposal.activity.category,
                      lifeos_generated |-> "true"]]]

\* fault injection: the extended properties are not stored with the event
Root_create_event_untagged(id, kw) ==
    [id |-> id, summary |-> kw.summary,
     start |-> [dateTime |-> kw.start], end |-> [dateTime |-> kw.end]]

\* CalendarClient.create_event: the event body inserted into the calendar
Root_create_event(id, kw) ==
    LET event_body == [id |-> id,
                       summary |-> kw.summary,
                       start |-> [dateTime |-> kw.start],
                       end |-> [dateTime |-> kw.end]]
    IN  IF DOMAIN kw.extended_properties # {}
        THEN [k \in DOMAIN event_body \cup {"extendedProperties"} |->
                 IF k = "extendedProperties" THEN kw.extended_properties
                 ELSE event_body[k]]
        ELSE event_body

-----------------------------------------------------------------------------
(* Apps engine: configuration accessors (apps/life-os-agent/src/lifeos/config.py) *)

\* WorkTemplate.start_time / end_time, Commitment.start_time / end_time
Apps_parse_time(hhmm) ==
    LET parts == Split(hhmm, ":")
    IN  time_of(ParseInt(parts[1]), ParseInt(parts[2]))

Apps_min_duration(activity) ==
    LET d == activity.duration IN
    IF IsInt(d) THEN d.int
    ELSE IF HasChar("-", d.str) THEN ParseInt(Split(d.str, "-")[1])
    ELSE ParseInt(d.str)

Apps_max_duration(activity) ==
    LET d == activity.duration IN
    IF IsInt(d) THEN d.int
    ELSE IF HasChar("-", d.str) THEN ParseInt(Split(d.str, "-")[2])
    ELSE ParseInt(d.str)

\* fault injection: the upper bound of a range is taken
Apps_weekly_target_upper(activity) ==
    LET f == activity.frequency IN
    IF ~IsInt(f) /\ f.str = Daily THEN 7
    ELSE IF ~IsInt(f) /\ f.str = Weekly THEN 1
    ELSE IF IsInt(f) THEN f.int
    ELSE IF HasChar("-", f.str) THEN ParseInt(Split(f.str, "-")[2])
    ELSE ParseInt(f.str)

Apps_weekly_target(activity) ==
    LET f == activity.frequency IN
    IF ~IsInt(f) /\ f.str = Daily THEN 7
    ELSE IF ~IsInt(f) /\ f.str = Weekly THEN 1
    ELSE IF IsInt(f) THEN f.int
    ELSE IF HasChar("-", f.str) THEN ParseInt(Split(f.str, "-")[1])
    ELSE ParseInt(f.str)

Apps_get_priority(priorities, activity_id) ==
    IF InSeq(activity_id, priorities.critical) THEN "critical"
    ELSE IF InSeq(activity_id, priorities.high) THEN "high"
    ELSE IF InSeq(activity_id, priorities.medium) THEN "medium"
    ELSE IF InSeq(activity_id, priorities.low) THEN "low"
    ELSE "medium"

-----------------------------------------------------------------------------
(* Apps engine: scheduler (apps/life-os-agent/src/lifeos/scheduler.py) *)

Apps_TimeSlot(start, end, day) == [start |-> start, end |-> end, day |-> day]

ScheduledEvent(id, title, start, end, activity_id) ==
    [id |-> id, title |-> title, start |-> start, end |-> end,
     activity_id |-> activity_id]

\* Scheduler.TIME_RANGES
Apps_TIME_RANGES(pref) ==
    CASE pref = "morning" -> <<time_of(6, 0), time_of(12, 0)>>
      [] pref = "afternoon" -> <<time_of(12, 0), time_of(17, 0)>>
      [] pref = "evening" -> <<time_of(17, 0), time_of(22, 0)>>
      [] pref = "flexible" -> <<time_of(6, 0), time_of(22, 0)>>

Apps_requirement(cfg, activity) ==
    LET target == Apps_weekly_target(activity)
    IN  [activity |-> activity,
         target_sessions |-> target,
         min_minutes |-> target * Apps_min_duration(activity),
         max_minutes |-> target * Apps_max_duration(activity),
         priority |-> Apps_get_priority(cfg.priorities, activity.id)]

Apps_calculate_weekly_requirements(cfg) ==
    [i \in 1..Len(cfg.activities) |-> Apps_requirement(cfg, cfg.activities[i])]

\* the work block appended for a work day, if any
Apps_work_events(cfg, current_date, day) ==
    IF DOMAIN cfg.template # {} /\ DOMAIN cfg.template.work # {}
       /\ InSeq(day, cfg.template.work.days)
    THEN <<ScheduledEvent(<<"work", current_date>>, <<"W", "o", "r", "k">>,
               datetime_combine(current_date, Apps_parse_time(cfg.template.work.start)),
               datetime_combine(current_date, Apps_parse_time(cfg.template.work.end)),
               None)>>
    ELSE <<>>

\* the commitment blocks appended for the day, in configuration order
RECURSIVE Apps_commitment_events(_, _, _)
Apps_commitment_events(commitments, current_date, day) ==
    IF commitments = <<>> THEN <<>>
    ELSE LET commitment == Head(commitments)
             rest == Apps_commitment_events(Tail(commitments), current_date, day)
         IN  IF commitment.day = day
             THEN <<ScheduledEvent(<<"commitment", commitment.name, current_date>>,
                        commitment.name,
                        datetime_combine(current_date, Apps_parse_time(commitment.start)),
                        datetime_combine(current_date, Apps_parse_time(commitment.end)),
                        None)>> \o rest
             ELSE rest

\* `if gap.duration_minutes >= slot_duration`
Apps_gap_qualifies(gap, slot_duration) == duration_minutes(gap) >= slot_duration

\* fault injection: the loop over the day's events starts at the second event
RECURSIVE Apps_find_gaps_from_second(_, _, _, _, _, _)
Apps_find_gaps_from_second(day_events, i, current_time, day, slot_duration, acc) ==
    IF i > Len(day_events) THEN [current_time |-> current_time, available |-> acc]
    ELSE IF i = 1
         THEN Apps_find_gaps_from_second(day_events, 2, current_time, day,
                                         slot_duration, acc)
    ELSE LET event == day_events[i]
             gap == Apps_TimeSlot(current_time, event.start, day)
             acc2 == IF event.start > current_time
                        /\ Apps_gap_qualifies(gap, slot_duration)
                     THEN Append(acc, gap) ELSE acc
         IN  Apps_find_gaps_from_second(day_events, i + 1,
                                        Max(current_time, event.end), day,
                                        slot_duration, acc2)

\* the gap-finding loop over one day's sorted events; appends to `acc`
RECURSIVE Apps_find_gaps(_, _, _, _, _, _)
Apps_find_gaps(day_events, i, current_time, day, slot_duration, acc) ==
    IF i > Len(day_events) THEN [current_time |-> current_time, available |-> acc]
    ELSE LET event == day_events[i]
             gap == Apps_TimeSlot(current_time, event.start, day)
             acc2 == IF event.start > current_time
                        /\ Apps_gap_qualifies(gap, slot_duration)
                     THEN Append(acc, gap) ELSE acc
         IN  Apps_find_gaps(day_events, i + 1, Max(current_time, event.end), day,
                            slot_duration, acc2)

\* the body of `for day_offset in range(7)`, from day_offset on;
\* st = [available, existing_events]: the list built and the argument list,
\* which the loop appends to
RECURSIVE Apps_sweep_days(_, _, _, _, _)
Apps_sweep_days(cfg, wk_start, day_offset, slot_duration, st) ==
    IF day_offset >= 7 THEN st
    ELSE LET current_date == wk_start + day_offset
             day == day_name_of_date(current_date)
             day_start == datetime_combine(current_date, time_of(6, 0))
             day_end == datetime_combine(current_date, time_of(22, 0))
             existing == st.existing_events
                         \o Apps_work_events(cfg, current_date, day)
                         \o Apps_commitment_events(cfg.commitments, current_date, day)
             day_events == SortByStart(SelectSeq(existing,
                               LAMBDA e : date_of(e.start) = current_date))
             swept == Apps_find_gaps(day_events, 1, day_start, day, slot_duration,
                                     st.available)
             gap == Apps_TimeSlot(swept.current_time, day_end, day)
             avail == IF swept.current_time < day_end
                         /\ Apps_gap_qualifies(gap, slot_duration)
                      THEN Append(swept.available, gap) ELSE swept.available
         IN  Apps_sweep_days(cfg, wk_start, day_offset + 1, slot_duration,
                             [available |-> avail, existing_events |-> existing])

Apps_DefaultSlotDuration == 30

\* returns the slot list together with the argument list as the call leaves it
Apps_get_available_slots(cfg, wk_start, existing_events, slot_duration) ==
    Apps_sweep_days(cfg, wk_start, 0, slot_duration,
                    [available |-> <<>>, existing_events |-> existing_events])

Apps_day_ok(slot, activity) ==
    activity.days_preference # <<>> => InSeq(slot.day, activity.days_preference)

Apps_is_preferred(slot, activity) ==
    LET range == Apps_TIME_RANGES(activity.time_preference)
        slot_time == time_part(slot.start)
    IN  \/ range[1] <= slot_time /\ slot_time < range[2]
        \/ activity.time_preference = "flexible"

Apps_filter_slots_by_preference(slots, activity) ==
    LET preferred == SelectSeq(slots, LAMBDA slot :
                        Apps_day_ok(slot, activity) /\ Apps_is_preferred(slot, activity))
        other == SelectSeq(slots, LAMBDA slot :
                        Apps_day_ok(slot, activity) /\ ~Apps_is_preferred(slot, activity))
    IN  preferred \o other

\* `if not activity_id`: None and "" are falsy
Falsy(str) == str = None \/ str = ""

\* the title match: the id of the first activity whose lower-cased name occurs
\* in the lower-cased title, or the activity_id unchanged when there is none
RECURSIVE Apps_match_by_title(_, _, _)
Apps_match_by_title(activities, title, activity_id) ==
    IF activities = <<>> THEN activity_id
    ELSE IF IsSubstring(Lower(Head(activities).name), Lower(title))
         THEN Head(activities).id
         ELSE Apps_match_by_title(Tail(activities), title, activity_id)

\* the activity an event is counted for (None: for none), week filter included
Apps_counted_for(cfg, event, wk_start) ==
    LET wk_end == wk_start + 6 IN
    IF date_of(event.start) < wk_start \/ date_of(event.start) > wk_end THEN None
    ELSE LET activity_id ==
                 IF Falsy(event.activity_id)
                 THEN Apps_match_by_title(cfg.activities, event.title, event.activity_id)
                 ELSE event.activity_id
         IN  IF Falsy(activity_id) THEN None ELSE activity_id

RECURSIVE Apps_tally(_, _, _, _)
Apps_tally(cfg, scheduled_events, wk_start, activity_id) ==
    IF scheduled_events = <<>> THEN [sessions |-> 0, minutes |-> 0]
    ELSE LET event == Head(scheduled_events)
             rest == Apps_tally(cfg, Tail(scheduled_events), wk_start, activity_id)
         IN  IF Apps_counted_for(cfg, event, wk_start) = activity_id
             THEN [sessions |-> rest.sessions + 1,
                   minutes |-> rest.minutes + duration_minutes(event)]
             ELSE rest

\* "gap_sessions": max(0, target - scheduled) and "on_track": scheduled >= target
Apps_gap_sessions(target, scheduled) == Max(0, target - scheduled)
Apps_on_track(target, scheduled) == scheduled >= target

Apps_analyze_scheduled_vs_required(cfg, scheduled_events, wk_start) ==
    LET requirements == Apps_calculate_weekly_requirements(cfg)
    IN  [i \in 1..Len(requirements) |->
            LET req == requirements[i]
                t == Apps_tally(cfg, scheduled_events, wk_start, req.activity.id)
                scheduled == t.sessions
                target == req.target_sessions
            IN  [activity_id |-> req.activity.id,
                 activity_name |-> req.activity.name,
                 target_sessions |-> target,
                 scheduled_sessions |-> scheduled,
                 gap_sessions |-> Apps_gap_sessions(target, scheduled),
                 target_minutes |-> req.min_minutes,
                 scheduled_minutes |-> t.minutes,
                 priority |-> req.priority,
                 on_track |-> Apps_on_track(target, scheduled)]]

\* fault injection: the slot a session was booked in is removed whole
Apps_split_slot_dropped(slots, original, used) ==
    SelectSeq(slots, LAMBDA slot :
                  ~(slot.start = original.start /\ slot.end = original.end))

\* Scheduler._split_slot
RECURSIVE Apps_split_slot(_, _, _)
Apps_split_slot(slots, original, used) ==
    IF slots = <<>> THEN <<>>
    ELSE LET slot == Head(slots)
             rest == Apps_split_slot(Tail(slots), original, used)
         IN  IF slot.start = original.start /\ slot.end = original.end
             THEN (IF used.start > slot.start
                   THEN <<Apps_TimeSlot(slot.start, used.start, slot.day)>> ELSE <<>>)
                  \o (IF used.end < slot.end
                      THEN <<Apps_TimeSlot(used.end, slot.end, slot.day)>> ELSE <<>>)
                  \o rest
             ELSE <<slot>> \o rest

\* priority_order.index(priority)
Apps_priority_index(priority) ==
    CASE priority = "critical" -> 0 [] priority = "high" -> 1
      [] priority = "medium" -> 2 [] priority = "low" -> 3

\* sorted(self.config.activities, key=priority index): stable; as positions
\* in config.activities
RECURSIVE Apps_insert_by_priority(_, _, _)
Apps_insert_by_priority(cfg, sorted, i) ==
    LET rank(j) == Apps_priority_index(
                       Apps_get_priority(cfg.priorities, cfg.activities[j].id))
    IN  IF sorted = <<>> THEN <<i>>
        ELSE IF rank(sorted[Len(sorted)]) <= rank(i) THEN Append(sorted, i)
        ELSE Append(Apps_insert_by_priority(cfg, SubSeq(sorted, 1, Len(sorted) - 1), i),
                    sorted[Len(sorted)])

RECURSIVE Apps_sorted_activities(_, _)
Apps_sorted_activities(cfg, n) ==
    IF n = 0 THEN <<>>
    ELSE Apps_insert_by_priority(cfg, Apps_sorted_activities(cfg, n - 1), n)

\* fault injection: every slot is taken to be long enough
Apps_fits_always(slot, min_duration) == TRUE

\* the two `continue` tests: the slot is long enough and the session ends inside it
Apps_fits(slot, min_duration) ==
    /\ ~(duration_minutes(slot) < min_duration)
    /\ ~(slot.start + timedelta_minutes(min_duration) > slot.end)

\* scheduled_counts[activity.id] = scheduled_counts.get(activity.id, 0) + 1
Apps_count_booking(scheduled_counts, a) == [scheduled_counts EXCEPT ![a] = @ + 1]

\* `for slot in preferred_slots`; a = position of the activity in config.activities;
\* st = [available, proposed_events, scheduled_counts, needed]
RECURSIVE Apps_book(_, _, _, _, _)
Apps_book(cfg, st, preferred_slots, k, a) ==
    IF k > Len(preferred_slots) \/ st.needed <= 0 THEN st
    ELSE LET slot == preferred_slots[k]
             activity == cfg.activities[a]
             event_end == slot.start + timedelta_minutes(Apps_min_duration(activity))
         IN  IF ~Apps_fits(slot, Apps_min_duration(activity))
             THEN Apps_book(cfg, st, preferred_slots, k + 1, a)
             ELSE LET proposed ==
                          [activity |-> activity,
                           slot |-> Apps_TimeSlot(slot.start, event_end, slot.day),
                           priority |-> Apps_get_priority(cfg.priorities, activity.id)]
                  IN  Apps_book(cfg,
                          [available |-> Apps_split_slot(st.available, slot, proposed.slot),
                           proposed_events |-> Append(st.proposed_events, proposed),
                           scheduled_counts |->
                               Apps_count_booking(st.scheduled_counts, a),
                           needed |-> st.needed - 1],
                          preferred_slots, k + 1, a)

\* the body of `for activity in sorted_activities`
Apps_schedule_activity(cfg, st, a) ==
    LET activity == cfg.activities[a]
        req == Apps_requirement(cfg, activity)
        needed == req.target_sessions - st.scheduled_counts[a]
    IN  IF needed <= 0 THEN st
        ELSE LET done == Apps_book(cfg,
                             [available |-> st.available,
                              proposed_events |-> st.proposed_events,
                              scheduled_counts |-> st.scheduled_counts,
                              needed |-> needed],
                             Apps_filter_slots_by_preference(st.available, activity), 1, a)
             IN  [available |-> done.available,
                  proposed_events |-> done.proposed_events,
                  scheduled_counts |-> done.scheduled_counts]

RECURSIVE Apps_schedule_all(_, _, _, _)
Apps_schedule_all(cfg, st, order, k) ==
    IF k > Len(order) THEN st
    ELSE Apps_schedule_all(cfg, Apps_schedule_activity(cfg, st, order[k]), order, k + 1)

\* returns ScheduleProposal.proposed_events and ScheduleProposal.coverage;
\* dicts keyed by activity id are sequences in configuration order
Apps_propose_schedule(cfg, wk_start, existing_events) ==
    LET requirements == Apps_calculate_weekly_requirements(cfg)
        avail == Apps_get_available_slots(cfg, wk_start, existing_events,
                                          Apps_DefaultSlotDuration).available
        an == Apps_analyze_scheduled_vs_required(cfg, existing_events, wk_start)
        done == Apps_schedule_all(cfg,
                    [available |-> avail,
                     proposed_events |-> <<>>,
                     scheduled_counts |-> [i \in 1..Len(an) |-> an[i].scheduled_sessions]],
                    Apps_sorted_activities(cfg, Len(cfg.activities)), 1)
    IN  [proposed_events |-> done.proposed_events,
         coverage |-> [i \in 1..Len(requirements) |->
                          [activity_id |-> requirements[i].activity.id,
                           scheduled |-> done.scheduled_counts[i],
                           target |-> requirements[i].target_sessions,
                           covered |-> done.scheduled_counts[i]
                                           >= requirements[i].target_sessions]]]

\* CalendarClient.create_event / MockCalendarClient.create_event for a proposed event
Apps_create_event(id, title, start, end, activity_id) ==
    ScheduledEvent(id, title, start, end, activity_id)

-----------------------------------------------------------------------------
(* Inputs: the configurations and calendars the engines are run on *)

MaxEvents == 2

\* a datetime of the week: day 0..6 (Monday..Sunday), then h:m:s
At(day, h, m, sec) == datetime_combine(day, time_of(h, m)) + sec

Run == <<"R", "u", "n">>
Read == <<"R", "e", "a", "d">>
Nap == <<"N", "a", "p">>

\* calendar events as (start, end, activity tag, title), in no particular order
EventChoices ==
    << [start |-> At(0, 9, 45, 0),  end |-> At(7, 0, 0, 0),  tag |-> None,
        title |-> <<"T", "r", "i", "p">>],
       [start |-> At(0, 9, 44, 30), end |-> At(7, 0, 0, 0),  tag |-> None,
        title |-> <<"T", "r", "i", "p">>],
       [start |-> At(0, 10, 30, 0), end |-> At(7, 0, 0, 0),  tag |-> None,
        title |-> <<"T", "r", "i", "p">>],
       [start |-> At(0, 0, 0, 0),   end |-> At(0, 9, 0, 0),  tag |-> None,
        title |-> <<"M", "e", "e", "t">>],
       [start |-> At(1, 13, 5, 0),  end |-> At(1, 17, 30, 0), tag |-> None,
        title |-> <<"R", "U", "N", "S">>],
       [start |-> At(1, 12, 0, 0),  end |-> At(1, 12, 45, 0), tag |-> "run",
        title |-> Run],
       [start |-> At(0, 8, 0, 0),   end |-> At(0, 10, 0, 0), tag |-> None,
        title |-> <<"M", "e", "e", "t">>],
       [start |-> At(0, 0, 45, 0),  end |-> At(6, 23, 15, 30), tag |-> None,
        title |-> <<"T", "r", "i", "p">>] >>

\* a Google Calendar event resource, as list_events returns it to the root engine
Root_event(id, e) ==
    LET base == [id |-> id, summary |-> e.title,
                 start |-> [dateTime |-> e.start], end |-> [dateTime |-> e.end]]
    IN  IF e.tag = None THEN base
        ELSE [k \in DOMAIN base \cup {"extendedProperties"} |->
                 IF k = "extendedProperties"
                 THEN [private |-> [lifeos_activity_id |-> e.tag,
                                    lifeos_generated |-> "true"]]
                 ELSE base[k]]

\* a ScheduledEvent, as list_events returns it to the apps engine
Apps_event(id, e) == ScheduledEvent(id, e.title, e.start, e.end, e.tag)

\* the calendars: every choice of at most MaxEvents of the events above, listed
\* in the order above (which is not the order of their start times)
EventLists(v) ==
    { [i \in DOMAIN pick |-> IF v = "root" THEN Root_event(i, EventChoices[pick[i]])
                      ELSE Apps_event(i, EventChoices[pick[i]])] :
        pick \in { f \in UNION { [1..n -> 1..Len(EventChoices)] : n \in 0..MaxEvents } :
                     \A i, j \in DOMAIN f : i < j => f[i] <= f[j] } }

Activity(id, name, frequency, duration, time_preference, days_preference) ==
    [id |-> id, name |-> name, category |-> "health", frequency |-> frequency,
     duration |-> duration, time_preference |-> time_preference,
     days_preference |-> days_preference]

\* Activity.time_preference: root takes str | list | None (a list here, None = <<>>),
\* apps takes one TimePreference
Pref(v, p) == IF v = "root" THEN <<p>> ELSE p

RunOnly(v) ==
    <<Activity("run", Run, PyInt(3), PyInt(45), Pref(v, "morning"), <<>>)>>
ReadAndRun(v) ==
    <<Activity("read", Read, PyStr(Weekly), PyStr(<<"3", "0", "-", "4", "5">>),
               Pref(v, "flexible"), <<>>),
      Activity("run", Run, PyInt(1), PyInt(45), Pref(v, "flexible"), <<>>)>>
NapOnly(v) ==
    <<Activity("nap", Nap, PyStr(<<"1", "-", "2">>), PyInt(45),
               Pref(v, "afternoon"), <<"tuesday">>)>>
RunAndRead(v) ==
    <<Activity("run", Run, PyInt(3), PyInt(45), Pref(v, "morning"), <<>>),
      Activity("read", Read, PyStr(Daily), PyInt(30), Pref(v, "evening"), <<>>)>>

ReadOnceRunThrice(v) ==
    <<Activity("read", Read, PyStr(Weekly), PyInt(30), Pref(v, "flexible"), <<>>),
      Activity("run", Run, PyInt(3), PyInt(45), Pref(v, "flexible"), <<>>)>>

BothMedium ==
    [critical |-> <<>>, high |-> <<>>, medium |-> <<"read", "run">>, low |-> <<>>]
RunCriticalReadLow ==
    [critical |-> <<"run">>, high |-> <<>>, medium |-> <<>>, low |-> <<"read">>]
RunHighReadMedium ==
    [critical |-> <<>>, high |-> <<"run", "nap">>, medium |-> <<"read">>, low |-> <<>>]
ReadCriticalRunLow ==
    [critical |-> <<"read">>, high |-> <<>>, medium |-> <<>>, low |-> <<"run", "read">>]

\* the activities of a configuration with its priorities
ActivityChoices(v) ==
    { [activities |-> RunOnly(v), priorities |-> RunHighReadMedium],
      [activities |-> ReadAndRun(v), priorities |-> RunCriticalReadLow],
      [activities |-> ReadAndRun(v), priorities |-> ReadCriticalRunLow],
      [activities |-> NapOnly(v), priorities |-> RunHighReadMedium],
      [activities |-> RunAndRead(v), priorities |-> RunHighReadMedium],
      [activities |-> RunAndRead(v), priorities |-> RunCriticalReadLow],
      [activities |-> ReadOnceRunThrice(v), priorities |-> BothMedium] }

Weekdays == <<"monday", "tuesday", "wednesday", "thursday", "friday">>
AllButMonday == <<"tuesday", "wednesday", "thursday", "friday", "saturday", "sunday">>

T(h1, h2, m1, m2) == <<h1, h2, ":", m1, m2>>

\* template and commitments; root's Template always holds a WorkTemplate
\* (default Monday-Friday 09:00-17:00), apps' template and work may be None
TemplateChoices(v) ==
    { [template |-> [work |-> [days |-> Weekdays, start |-> T("0", "9", "0", "0"),
                               end |-> T("1", "7", "0", "0")]],
       commitments |-> <<[name |-> <<"G", "y", "m">>, day |-> "monday",
                          start |-> T("1", "8", "0", "0"),
                          end |-> T("1", "9", "0", "0")]>>] }
    \cup
    (IF v = "root" THEN {}
     ELSE { [template |-> EmptyDict, commitments |-> <<>>],
            [template |-> [work |-> [days |-> AllButMonday,
                                     start |-> T("0", "6", "0", "0"),
                                     end |-> T("2", "2", "0", "0")]],
             commitments |-> <<>>] })

Configs(v) ==
    { [template |-> t.template, commitments |-> t.commitments,
       activities |-> a.activities, priorities |-> a.priorities] :
        t \in TemplateChoices(v), a \in ActivityChoices(v) }

\* the (start_date, end_date) and min_duration arguments get_available_slots is given
Ranges == { [start |-> At(0, 0, 0, 0), end |-> At(7, 0, 0, 0)],
            [start |-> At(1, 12, 0, 0), end |-> At(1, 18, 0, 0)] }
MinDurations == {15, 30}

-----------------------------------------------------------------------------
(* The state machine: one action per scheduler call *)

Init ==
    /\ variant \in {"root", "apps"}
    /\ config \in Configs(variant)
    /\ week_start = 0
    /\ events \in EventLists(variant)
    /\ phase = "init"
    /\ query = <<>>
    /\ available = <<>>
    /\ analysis = <<>>
    /\ proposals = <<>>
    /\ coverage = <<>>
    /\ booked = 0
    /\ returned = <<>>
    /\ conversations = <<>>

\* does the loop that builds busy_slots raise: an event has start.dateTime and
\* end["dateTime"] is a KeyError
Root_get_available_slots_raises(existing_events) ==
    \E i \in 1..Len(existing_events) :
        LET start == Get(existing_events[i], "start", EmptyDict)
            end == Get(existing_events[i], "end", EmptyDict)
        IN  "dateTime" \in DOMAIN start /\ "dateTime" \notin DOMAIN end

\* does the tally raise: an event tagged with an activity of the configuration
\* for which event["start"]["dateTime"] or event["end"]["dateTime"] is a KeyError
Root_analyze_raises(cfg, existing_events) ==
    \E i \in 1..Len(existing_events), k \in 1..Len(cfg.activities) :
        LET event == existing_events[i]
        IN  /\ Root_event_tag(event) = cfg.activities[k].id
            /\ \/ "start" \notin DOMAIN event
               \/ "dateTime" \notin DOMAIN event.start
               \/ "end" \notin DOMAIN event
               \/ "dateTime" \notin DOMAIN event.end

Root_GetAvailableSlots ==
    /\ variant = "root" /\ phase = "init"
    /\ \E r \in Ranges, min_duration \in MinDurations :
          /\ query' = [start |-> r.start, end |-> r.end, min_duration |-> min_duration]
          /\ IF Root_get_available_slots_raises(events)
             THEN /\ available' = available
                  /\ phase' = "raised"
             ELSE /\ available' = Root_get_available_slots(events, r.start, r.end,
                                                           min_duration)
                  /\ phase' = "slots"
    /\ UNCHANGED <<conversations, returned, variant, config, week_start, events, analysis, proposals,
                   coverage, booked>>

Root_Analyze ==
    /\ variant = "root" /\ phase \in {"init", "booked"}
    /\ IF Root_analyze_raises(config, events)
       THEN /\ analysis' = analysis
            /\ phase' = "raised"
       ELSE /\ analysis' = Root_analyze_scheduled_vs_required(config, events, week_start,
                                week_start + timedelta_days(7))
            /\ phase' = IF phase = "init" THEN "analysis" ELSE "roundtrip"
    /\ UNCHANGED <<conversations, returned, variant, config, week_start, events, query, available, proposals,
                   coverage, booked>>

Root_ProposeSchedule ==
    /\ variant = "root" /\ phase = "init"
    /\ proposals' = Root_propose_schedule(config, events, week_start)
    /\ phase' = "proposal"
    /\ UNCHANGED <<conversations, returned, variant, config, week_start, events, query, available, analysis,
                   coverage, booked>>

\* the caller books every proposal: create_event(**proposal.to_event_body(config))
Root_BookProposals ==
    /\ variant = "root" /\ phase = "proposal"
    /\ events' = events \o [k \in 1..Len(proposals) |->
                     Root_create_event(Len(events) + k, Root_to_event_body(proposals[k]))]
    /\ booked' = Len(proposals)
    /\ phase' = "booked"
    /\ UNCHANGED <<conversations, returned, variant, config, week_start, query, available, analysis, proposals,
                   coverage>>

Apps_GetAvailableSlots ==
    /\ variant = "apps" /\ phase = "init"
    /\ \E slot_duration \in MinDurations :
          LET r == Apps_get_available_slots(config, week_start, events, slot_duration)
          IN  /\ query' = [week_start |-> week_start, slot_duration |-> slot_duration]
              /\ available' = r.available
              /\ events' = r.existing_events
    /\ phase' = "slots"
    /\ UNCHANGED <<conversations, returned, variant, config, week_start, analysis, proposals, coverage, booked>>

Apps_Analyze ==
    /\ variant = "apps" /\ phase \in {"init", "booked"}
    /\ analysis' = Apps_analyze_scheduled_vs_required(config, events, week_start)
    /\ phase' = IF phase = "init" THEN "analysis" ELSE "roundtrip"
    /\ UNCHANGED <<conversations, returned, variant, config, week_start, events, query, available, proposals,
                   coverage, booked>>

Apps_ProposeSchedule ==
    /\ variant = "apps" /\ phase = "init"
    /\ LET r == Apps_propose_schedule(config, week_start, events)
       IN  /\ proposals' = r.proposed_events
           /\ coverage' = r.coverage
    /\ phase' = "proposal"
    /\ UNCHANGED <<conversations, returned, variant, config, week_start, events, query, available, analysis,
                   booked>>

\* the caller books every proposed event: create_event(title, start, end, activity_id)
Apps_BookProposals ==
    /\ variant = "apps" /\ phase = "proposal"
    /\ events' = events \o [k \in 1..Len(proposals) |->
                     Apps_create_event(Len(events) + k, proposals[k].activity.name,
                                       proposals[k].slot.start, proposals[k].slot.end,
                                       proposals[k].activity.id)]
    /\ booked' = Len(proposals)
    /\ phase' = "booked"
    /\ UNCHANGED <<conversations, returned, variant, config, week_start, query, available, analysis, proposals,
                   coverage>>

\* get_available_slots called a second time with the same list, range and
\* minimum gap
Root_GetAvailableSlotsAgain ==
    /\ variant = "root" /\ phase = "slots"
    /\ returned' = Root_get_available_slots(events, query.start, query.end,
                                            query.min_duration)
    /\ phase' = "slots2"
    /\ UNCHANGED <<conversations, variant, config, week_start, events, query, available, analysis,
                   proposals, coverage, booked>>

\* get_available_slots called a second time with the list object the first call
\* was given, as that call left it
Apps_GetAvailableSlotsAgain ==
    /\ variant = "apps" /\ phase = "slots"
    /\ LET r == Apps_get_available_slots(config, query.week_start, events,
                                         query.slot_duration)
       IN  /\ returned' = r.available
           /\ events' = r.existing_events
    /\ phase' = "slots2"
    /\ UNCHANGED <<conversations, variant, config, week_start, query, available, analysis,
                   proposals, coverage, booked>>

Next ==
    \/ Root_GetAvailableSlots
    \/ Root_Analyze
    \/ Root_ProposeSchedule
    \/ Root_BookProposals
    \/ Apps_GetAvailableSlots
    \/ Apps_Analyze
    \/ Apps_ProposeSchedule
    \/ Apps_BookProposals
    \/ Root_GetAvailableSlotsAgain
    \/ Apps_GetAvailableSlotsAgain

Spec == Init /\ [][Next]_vars

-----------------------------------------------------------------------------
(* Vocabulary of the properties: half-open intervals [start, end) *)

Interval(start, end) == [start |-> start, end |-> end]
Contains(iv, t) == iv.start <= t /\ t < iv.end
SeqToSet(s) == { s[i] : i \in 1..Len(s) }

\* the busy intervals a get_available_slots call worked with
BusyIntervals ==
    IF variant = "root"
    THEN [i \in 1..Len(events) |->
             Interval(events[i].start.dateTime, events[i].end.dateTime)]
    ELSE [i \in 1..Len(events) |-> Interval(events[i].start, events[i].end)]

\* the window the call was asked about: the range (root), 06:00-22:00 of each
\* day of the week (apps)
Windows ==
    IF variant = "root" THEN { Interval(query.start, query.end) }
    ELSE { Interval(datetime_combine(query.week_start + d, time_of(6, 0)),
                    datetime_combine(query.week_start + d, time_of(22, 0))) :
             d \in 0..6 }

\* membership in a finite union of half-open intervals changes only at an
\* endpoint, so a property of "every instant" is decided on the endpoints
Endpoints(ivs) == { ivs[i].start : i \in 1..Len(ivs) } \cup { ivs[i].end : i \in 1..Len(ivs) }
Instants ==
    Endpoints(BusyIntervals) \cup Endpoints(available)
        \cup { w.start : w \in Windows } \cup { w.end : w \in Windows }

IsBusy(t) == \E i \in 1..Len(BusyIntervals) : Contains(BusyIntervals[i], t)
InWindow(t) == \E w \in Windows : Contains(w, t)
IsFree(t) == InWindow(t) /\ ~IsBusy(t)
SlotsHolding(t) == { i \in 1..Len(available) : Contains(available[i], t) }

PairwiseDisjoint(ivs) ==
    \A i, j \in 1..Len(ivs) : i < j => ~overlaps(ivs[i], ivs[j])

\* the precondition of C1: busy intervals pairwise non-overlapping, each inside a window
BusyWellPlaced ==
    /\ PairwiseDisjoint(BusyIntervals)
    /\ \A i \in 1..Len(BusyIntervals) :
          /\ BusyIntervals[i].start < BusyIntervals[i].end
          /\ \E w \in Windows : /\ w.start <= BusyIntervals[i].start
                                /\ BusyIntervals[i].end <= w.end

\* the maximal free gap around a free instant t
SetMax(S) == CHOOSE x \in S : \A y \in S : y <= x
SetMin(S) == CHOOSE x \in S : \A y \in S : x <= y
GapStart(t) ==
    SetMax({ p \in { BusyIntervals[i].end : i \in 1..Len(BusyIntervals) }
                   \cup { w.start : w \in Windows } : p <= t })
GapEnd(t) ==
    SetMin({ p \in { BusyIntervals[i].start : i \in 1..Len(BusyIntervals) }
                   \cup { w.end : w \in Windows } : p > t })

-----------------------------------------------------------------------------
(* C1 *)

\* C1 as stated: for pairwise non-overlapping busy intervals inside the range,
\* the returned slots are pairwise disjoint and cover exactly the free instants
\* (every free instant in exactly one slot, no busy instant in any slot).
C1_ExactPartition ==
    (phase = "slots" /\ BusyWellPlaced) =>
        /\ PairwiseDisjoint(available)
        /\ \A t \in Instants :
              /\ IsFree(t) => Cardinality(SlotsHolding(t)) = 1
              /\ ~IsFree(t) => SlotsHolding(t) = {}

\* C1 amended: for pairwise non-overlapping busy intervals inside the range, the
\* returned slots are pairwise disjoint, hold no busy instant and no instant
\* outside the range, and a free instant lies in exactly one returned slot when
\* the maximal free gap around it lasts at least the minimum number of whole
\* minutes, and in no returned slot when that gap is shorter.
C1_PartitionUpToShortGaps ==
    (phase = "slots" /\ BusyWellPlaced) =>
        /\ PairwiseDisjoint(available)
        /\ \A t \in Instants :
              /\ ~IsFree(t) => SlotsHolding(t) = {}
              /\ IsFree(t) =>
                    LET whole_minutes ==
                            IntDivTrunc(GapEnd(t) - GapStart(t), SecondsPerMinute)
                        minimum == IF variant = "root" THEN query.min_duration
                                   ELSE query.slot_duration
                    IN  Cardinality(SlotsHolding(t)) =
                            (IF whole_minutes >= minimum THEN 1 ELSE 0)

\* a call on well-placed busy intervals that returned a slot and dropped a short gap
C1_Witness ==
    /\ phase = "slots" /\ BusyWellPlaced
    /\ Len(BusyIntervals) >= 2
    /\ available # <<>>
    /\ \E t \in Instants : IsFree(t) /\ SlotsHolding(t) = {}

-----------------------------------------------------------------------------
(* Vocabulary of the proposals of one propose_schedule pass *)

PStart(p) == IF variant = "root" THEN p.start ELSE p.slot.start
PEnd(p) == IF variant = "root" THEN p.end ELSE p.slot.end
ProposalIntervals ==
    [i \in 1..Len(proposals) |-> Interval(PStart(proposals[i]), PEnd(proposals[i]))]
ProposalsFor(activity_id) ==
    { i \in 1..Len(proposals) : proposals[i].activity.id = activity_id }

\* the work-hours window of each configured work day of the week
WorkWindows ==
    IF variant = "root"
    THEN { Interval(Root_get_work_hours(config, datetime_combine(d, 0))[1],
                    Root_get_work_hours(config, datetime_combine(d, 0))[2]) :
             d \in { x \in 0..6 :
                       Root_get_work_hours(config, datetime_combine(x, 0)) # <<>> } }
    ELSE { Interval(Apps_work_events(config, d, day_name_of_date(d))[1].start,
                    Apps_work_events(config, d, day_name_of_date(d))[1].end) :
             d \in { x \in 0..6 : Apps_work_events(config, x, day_name_of_date(x)) # <<>> } }

\* the block of each commitment on that commitment's day of the week
CommitmentBlocks ==
    { Interval(datetime_combine(d, Apps_parse_time(config.commitments[k].start)),
               datetime_combine(d, Apps_parse_time(config.commitments[k].end))) :
        <<d, k>> \in { dk \in (0..6) \X (1..Len(config.commitments)) :
                         config.commitments[dk[2]].day = day_name_of_date(dk[1]) } }

-----------------------------------------------------------------------------
(* C2 *)

\* C2: the sessions proposed by one propose_schedule pass, across all activities
\* and across the sessions of one activity, are pairwise non-overlapping
\* half-open intervals.
C2_ProposalsPairwiseDisjoint ==
    phase = "proposal" => PairwiseDisjoint(ProposalIntervals)

\* a pass in which a later activity was given the remainder of a slot that an
\* earlier booking had consumed the head of
C2_Witness ==
    /\ phase = "proposal"
    /\ \E i, j \in 1..Len(proposals) :
          /\ i < j
          /\ proposals[i].activity.id # proposals[j].activity.id
          /\ ProposalIntervals[i].end = ProposalIntervals[j].start

-----------------------------------------------------------------------------
(* C3 *)

\* C3 as stated: no session proposed by propose_schedule overlaps a commitment
\* block on that commitment's day or the work-hours window of a configured
\* work day.
C3_NoProposalInBlockedTime ==
    phase = "proposal" =>
        \A i \in 1..Len(proposals) :
            \A b \in WorkWindows \cup CommitmentBlocks :
                ~overlaps(ProposalIntervals[i], b)

\* the same statement for the apps engine alone, which synthesizes the blocks
C3_AppsNoProposalInBlockedTime ==
    (phase = "proposal" /\ variant = "apps") =>
        \A i \in 1..Len(proposals) :
            \A b \in WorkWindows \cup CommitmentBlocks :
                ~overlaps(ProposalIntervals[i], b)

-----------------------------------------------------------------------------
(* C4 *)

\* day d offers an open window of at least `minutes` between 06:00 and 22:00:
\* a stretch of that length outside every work window and commitment block
DayOffersWindow(d, minutes) ==
    LET day_start == datetime_combine(d, time_of(6, 0))
        day_end == datetime_combine(d, time_of(22, 0))
        blocks == WorkWindows \cup CommitmentBlocks
    IN  \E s \in {day_start} \cup { b.end : b \in blocks } :
            /\ day_start <= s
            /\ s + timedelta_minutes(minutes) <= day_end
            /\ \A b \in blocks :
                  ~overlaps(Interval(s, s + timedelta_minutes(minutes)), b)

\* the scenario of C4: an empty calendar, one activity of exact frequency and
\* exact duration, seven days each offering a window of that duration
C4_Scenario ==
    /\ phase = "proposal"
    /\ events = <<>>
    /\ Len(config.activities) = 1
    /\ IsInt(config.activities[1].frequency)
    /\ IsInt(config.activities[1].duration)
    /\ \A d \in 0..6 : DayOffersWindow(d, config.activities[1].duration.int)

C4_Outcome ==
    LET activity == config.activities[1]
        n == activity.frequency.int
        d == activity.duration.int
    IN  /\ Len(proposals) = n
        /\ \A i \in 1..Len(proposals) :
              /\ proposals[i].activity.id = activity.id
              /\ duration_minutes(ProposalIntervals[i]) = d
              /\ ProposalIntervals[i].end - ProposalIntervals[i].start
                     = timedelta_minutes(d)
              /\ proposals[i].priority
                     = Root_get_activity_priority(config, activity.id)
        /\ coverage = <<[activity_id |-> activity.id, scheduled |-> n,
                         target |-> n, covered |-> TRUE]>>

\* C4 as stated: with an empty calendar and a single activity of exact
\* frequency n and exact duration d, in a week whose seven days each offer an
\* open window of at least d minutes, propose_schedule returns exactly n
\* sessions of exactly d minutes carrying the activity's priority, and the
\* coverage of the activity is {scheduled n, target n, covered true}.
C4_EmptyCalendarScenario == C4_Scenario => C4_Outcome

\* the same statement for the apps engine alone
C4_AppsEmptyCalendarScenario == (C4_Scenario /\ variant = "apps") => C4_Outcome

\* the apps engine ran the scenario
C4_AppsScenarioReached == C4_Scenario /\ variant = "apps"

-----------------------------------------------------------------------------
(* Vocabulary of a pass: what propose_schedule starts from *)

\* the available slots propose_schedule computes before its first booking
PassAvailable ==
    IF variant = "root"
    THEN Root_get_available_slots(events, week_start, week_start + timedelta_days(7),
                                  Root_DefaultMinDuration)
    ELSE Apps_get_available_slots(config, week_start, events,
                                  Apps_DefaultSlotDuration).available

MinDur(activity) ==
    IF variant = "root" THEN Root_get_duration_range(activity)[1]
    ELSE Apps_min_duration(activity)

Target(activity) ==
    IF variant = "root" THEN Root_get_frequency_range(activity)[1]
    ELSE Apps_weekly_target(activity)

PriorityOf(activity) ==
    IF variant = "root" THEN Root_get_activity_priority(config, activity.id)
    ELSE Apps_get_priority(config.priorities, activity.id)

\* the session deficit of the activity at position i before the pass
InitialDeficit(i) ==
    IF variant = "root"
    THEN Root_analyze_scheduled_vs_required(config, events, week_start,
             week_start + timedelta_days(7))[i].sessions_deficit
    ELSE Apps_analyze_scheduled_vs_required(config, events, week_start)[i].gap_sessions

\* the slots of `slots` the walk of an activity goes through
Offered(activity, slots) ==
    IF variant = "root"
    THEN LET filtered == Root_filter_slots_by_preference(slots,
                             activity.time_preference, activity.days_preference)
         IN  IF filtered = <<>> THEN slots ELSE filtered
    ELSE Apps_filter_slots_by_preference(slots, activity)

\* the session deficit of the activity at position i after the pass
FinalDeficit(i) ==
    Max(0, InitialDeficit(i) - Cardinality(ProposalsFor(config.activities[i].id)))

-----------------------------------------------------------------------------
(* C5 *)

\* positions (critical, low) of two activities with a deficit of 1 each
C5_Pairs ==
    { cl \in (1..Len(config.activities)) \X (1..Len(config.activities)) :
        /\ Len(config.activities) = 2
        /\ PriorityOf(config.activities[cl[1]]) = "critical"
        /\ PriorityOf(config.activities[cl[2]]) = "low"
        /\ InitialDeficit(cl[1]) = 1
        /\ InitialDeficit(cl[2]) = 1 }

\* the slots of the pass that are eligible for, and long enough for, activity i
C5_Usable(i) ==
    { k \in 1..Len(PassAvailable) :
        /\ InSeq(PassAvailable[k], Offered(config.activities[i], PassAvailable))
        /\ duration_minutes(PassAvailable[k]) >= MinDur(config.activities[i]) }

\* the critical session is booked in slot k and the low activity keeps its deficit
C5_Outcome(c, l, k) ==
    /\ \E i \in ProposalsFor(config.activities[c].id) :
          /\ ProposalIntervals[i].start = PassAvailable[k].start
          /\ ProposalIntervals[i].end <= PassAvailable[k].end
    /\ ProposalsFor(config.activities[l].id) = {}
    /\ FinalDeficit(l) = 1
    /\ variant = "apps" =>
          /\ coverage[l].target - coverage[l].scheduled = 1
          /\ ~coverage[l].covered

\* what is left of slot k after the critical session is too short for the low activity
C5_RemainderTooShort(c, l, k) ==
    duration_minutes(Interval(PassAvailable[k].start
                                  + timedelta_minutes(MinDur(config.activities[c])),
                              PassAvailable[k].end))
        < MinDur(config.activities[l])

\* every slot but k is too short for either activity
C5_OthersTooShort(c, l, k) ==
    \A j \in 1..Len(PassAvailable) :
        j # k => /\ duration_minutes(PassAvailable[j]) < MinDur(config.activities[c])
                 /\ duration_minutes(PassAvailable[j]) < MinDur(config.activities[l])

\* C5 as stated: two activities with a deficit of 1 each, one critical and one
\* low, and exactly one slot that is eligible and long enough for either: the
\* critical session is booked in that slot and the low activity ends the pass
\* with a deficit of 1.
C5_CriticalTakesOnlySlot ==
    phase = "proposal" =>
        \A cl \in C5_Pairs : \A k \in 1..Len(PassAvailable) :
            (C5_Usable(cl[1]) = {k} /\ C5_Usable(cl[2]) = {k})
                => C5_Outcome(cl[1], cl[2], k)

\* C5 amended: when moreover every other slot is too short for either activity
\* and what is left of the slot after the critical session is shorter than the
\* low activity's minimum, the critical session is booked in that slot and the
\* low activity ends the pass with a deficit of 1.
C5_CriticalTakesOnlySlotNoRemainder ==
    phase = "proposal" =>
        \A cl \in C5_Pairs : \A k \in 1..Len(PassAvailable) :
            (/\ C5_Usable(cl[1]) = {k} /\ C5_Usable(cl[2]) = {k}
             /\ C5_OthersTooShort(cl[1], cl[2], k)
             /\ C5_RemainderTooShort(cl[1], cl[2], k))
                => C5_Outcome(cl[1], cl[2], k)

\* a pass of the amended scenario in which the low activity has the shorter
\* minimum, so that the order of the two bookings decides the outcome
C5_Witness ==
    /\ phase = "proposal"
    /\ \E cl \in C5_Pairs : \E k \in 1..Len(PassAvailable) :
          /\ C5_Usable(cl[1]) = {k} /\ C5_Usable(cl[2]) = {k}
          /\ C5_OthersTooShort(cl[1], cl[2], k)
          /\ C5_RemainderTooShort(cl[1], cl[2], k)
          /\ MinDur(config.activities[cl[2]]) < MinDur(config.activities[cl[1]])
          /\ ProposalsFor(config.activities[cl[1]].id) # {}

-----------------------------------------------------------------------------
(* C6 *)

\* the events of the calendar before the proposals were booked
OriginalEvents == SubSeq(events, 1, Len(events) - booked)

\* the original events that carry the activity's id as their tag
TaggedCount(activity_id) ==
    Cardinality({ k \in 1..Len(OriginalEvents) :
                    IF variant = "root"
                    THEN Root_event_tag(OriginalEvents[k]) = activity_id
                    ELSE OriginalEvents[k].activity_id = activity_id })

\* the original events the analysis counts for the activity at position i
MatchedCount(i) ==
    IF variant = "root"
    THEN Root_tally(OriginalEvents, config.activities[i].id).sessions
    ELSE Apps_tally(config, OriginalEvents, week_start, config.activities[i].id).sessions

ProposedCount(i) == Cardinality(ProposalsFor(config.activities[i].id))

\* the proposals of the pass brought the activity at position i to its target
MetTarget(i) == MatchedCount(i) + ProposedCount(i) >= Target(config.activities[i])

AnalysisDeficit(i) ==
    IF variant = "root" THEN analysis[i].sessions_deficit ELSE analysis[i].gap_sessions

-----------------------------------------------------------------------------
(* Vocabulary of a pass: the available slots at an activity's turn *)

\* root: the deficit activities in the order the pass takes them
RootTodo ==
    Root_activities_to_schedule(
        Root_analyze_scheduled_vs_required(config, events, week_start,
            week_start + timedelta_days(7)))

\* apps: the positions of the activities in the order the pass takes them
AppsOrder == Apps_sorted_activities(config, Len(config.activities))

AppsInitialCounts ==
    LET an == Apps_analyze_scheduled_vs_required(config, events, week_start)
    IN  [i \in 1..Len(an) |-> an[i].scheduled_sessions]

\* the position in the order of the pass of the activity at position i of the
\* configuration (0 when the pass does not take it)
TurnOf(i) ==
    IF variant = "root"
    THEN IF \E k \in 1..Len(RootTodo) : RootTodo[k].activity.id = config.activities[i].id
         THEN CHOOSE k \in 1..Len(RootTodo) :
                  RootTodo[k].activity.id = config.activities[i].id
         ELSE 0
    ELSE CHOOSE k \in 1..Len(AppsOrder) : AppsOrder[k] = i

\* the available list when the walk of the activity at position i begins: the
\* pass replayed over the activities taken before it
AvailableAtTurn(i) ==
    IF variant = "root"
    THEN Root_schedule_all([available |-> PassAvailable, proposals |-> <<>>],
                           SubSeq(RootTodo, 1, TurnOf(i) - 1), 1).available
    ELSE Apps_schedule_all(config,
                           [available |-> PassAvailable,
                            proposed_events |-> <<>>,
                            scheduled_counts |-> AppsInitialCounts],
                           SubSeq(AppsOrder, 1, TurnOf(i) - 1), 1).available

-----------------------------------------------------------------------------
(* C7 *)

\* C7 as stated: an activity with a session deficit receives at least one
\* proposed session whenever some slot available at its turn, preferred or
\* not, lasts at least the activity's minimum duration.
C7_NeverFailsOnPreferenceAlone ==
    phase = "proposal" =>
        \A i \in 1..Len(config.activities) :
            (/\ InitialDeficit(i) > 0
             /\ \E k \in 1..Len(AvailableAtTurn(i)) :
                   duration_minutes(AvailableAtTurn(i)[k])
                       >= MinDur(config.activities[i]))
                => ProposedCount(i) >= 1

\* the part of C7 the root engine keeps: when the preference filter yields no
\* slot at the activity's turn, the unfiltered list is walked
C7_RootFallbackWhenFilterEmpty ==
    (phase = "proposal" /\ variant = "root") =>
        \A i \in 1..Len(config.activities) :
            (/\ InitialDeficit(i) > 0
             /\ Root_filter_slots_by_preference(AvailableAtTurn(i),
                    config.activities[i].time_preference,
                    config.activities[i].days_preference) = <<>>
             /\ \E k \in 1..Len(AvailableAtTurn(i)) :
                   duration_minutes(AvailableAtTurn(i)[k])
                       >= MinDur(config.activities[i]))
                => ProposedCount(i) >= 1

-----------------------------------------------------------------------------
(* C8 *)

\* the slots the walk of the activity at position i goes through, in order
WalkAtTurn(i) == Offered(config.activities[i], AvailableAtTurn(i))

\* a session of the activity at position i was booked at the start of the slot
BookedAtStartOf(i, slot) ==
    \E p \in ProposalsFor(config.activities[i].id) :
        /\ ProposalIntervals[p].start = slot.start
        /\ ProposalIntervals[p].end
               = slot.start + timedelta_minutes(MinDur(config.activities[i]))

\* C8: the slot-length test is inclusive. A slot walked for an activity whose
\* duration in minutes equals the activity's minimum is used for a booking
\* (unless the sessions needed were all booked in other slots), and no session
\* of the activity is placed in a slot available at its turn whose duration
\* is below the minimum.
C8_SlotLengthTestInclusive ==
    phase = "proposal" =>
        \A i \in 1..Len(config.activities) :
            InitialDeficit(i) > 0 =>
                /\ \A k \in 1..Len(WalkAtTurn(i)) :
                      duration_minutes(WalkAtTurn(i)[k]) = MinDur(config.activities[i])
                          => \/ BookedAtStartOf(i, WalkAtTurn(i)[k])
                             \/ ProposedCount(i) = InitialDeficit(i)
                /\ \A k \in 1..Len(AvailableAtTurn(i)) :
                      duration_minutes(AvailableAtTurn(i)[k]) < MinDur(config.activities[i])
                          => \A p \in ProposalsFor(config.activities[i].id) :
                                 ~overlaps(ProposalIntervals[p], AvailableAtTurn(i)[k])

\* a pass that walked, for one activity still short of sessions, a slot of
\* exactly the minimum duration, which it booked, and a slot one minute
\* shorter, which it left alone
C8_Witness ==
    /\ phase = "proposal"
    /\ \E i \in 1..Len(config.activities) :
          /\ ProposedCount(i) < InitialDeficit(i)
          /\ \E a, b \in 1..Len(WalkAtTurn(i)) :
                /\ duration_minutes(WalkAtTurn(i)[a]) = MinDur(config.activities[i])
                /\ BookedAtStartOf(i, WalkAtTurn(i)[a])
                /\ duration_minutes(WalkAtTurn(i)[b]) = MinDur(config.activities[i]) - 1
                /\ ~BookedAtStartOf(i, WalkAtTurn(i)[b])

-----------------------------------------------------------------------------
(* C9 *)

\* the coverage entry of every configured activity counts the proposals
CoverageCountsProposals ==
    /\ Len(coverage) = Len(config.activities)
    /\ \A i \in 1..Len(config.activities) :
          /\ coverage[i].activity_id = config.activities[i].id
          /\ coverage[i].scheduled = MatchedCount(i) + ProposedCount(i)
          /\ coverage[i].target = Target(config.activities[i])
          /\ coverage[i].covered <=> (coverage[i].scheduled >= coverage[i].target)

\* C9 as stated: the coverage returned with a proposal has, for every
\* configured activity, scheduled = pre-existing events matched to the
\* activity in the week + sessions proposed for it in this pass, target = its
\* target session count, and covered true iff scheduled >= target.
C9_CoverageCountsProposals ==
    phase = "proposal" => CoverageCountsProposals

\* the same statement for the apps engine alone, which returns a coverage
C9_AppsCoverageCountsProposals ==
    (phase = "proposal" /\ variant = "apps") => CoverageCountsProposals

\* an apps pass whose coverage adds proposals to a pre-existing matched event,
\* with one activity covered and one not
C9_AppsCoverageReached ==
    /\ phase = "proposal" /\ variant = "apps"
    /\ \E i \in 1..Len(config.activities) :
          MatchedCount(i) > 0 /\ ProposedCount(i) > 0 /\ coverage[i].covered
    /\ \E i \in 1..Len(config.activities) : ~coverage[i].covered

-----------------------------------------------------------------------------
(* C10 *)

\* the target the analysis compares the scheduled sessions with
AnalysisTarget(i) ==
    IF variant = "root" THEN analysis[i].required_sessions[1]
    ELSE analysis[i].target_sessions

\* C10: in the coverage analysis the session deficit of every activity is
\* >= 0, and the activity is on track (apps: the on_track flag; root, which
\* reports no flag: a deficit of 0) iff scheduled_sessions >= the target,
\* which is the case iff the deficit is 0.
C10_DeficitNonNegativeOnTrack ==
    phase \in {"analysis", "roundtrip"} =>
        /\ Len(analysis) = Len(config.activities)
        /\ \A i \in 1..Len(analysis) :
              /\ AnalysisDeficit(i) >= 0
              /\ (AnalysisDeficit(i) = 0)
                     <=> (analysis[i].scheduled_sessions >= AnalysisTarget(i))
              /\ variant = "apps" =>
                    /\ analysis[i].on_track
                           <=> (analysis[i].scheduled_sessions >= analysis[i].target_sessions)
                    /\ analysis[i].on_track <=> (analysis[i].gap_sessions = 0)

\* an analysis with one activity above its target and another below it
C10_Witness ==
    /\ phase = "analysis"
    /\ \E i, j \in 1..Len(analysis) :
          /\ analysis[i].scheduled_sessions > AnalysisTarget(i)
          /\ AnalysisDeficit(i) = 0
          /\ analysis[j].scheduled_sessions < AnalysisTarget(j)
          /\ AnalysisDeficit(j) > 0

-----------------------------------------------------------------------------
(* The configuration accessors on their own: a second state machine, whose
   configurations hold one activity with any frequency and duration the YAML
   file can give it, or any assignment of the activity to the priority tiers *)

MaxCount == 3

\* the text of a non-negative integer, as the YAML file holds it
DigitChars == <<"0", "1", "2", "3", "4", "5", "6", "7", "8", "9">>
RECURSIVE Render(_)
Render(n) ==
    IF n < 10 THEN <<DigitChars[n + 1]>>
    ELSE Render(n \div 10) \o <<DigitChars[(n % 10) + 1]>>

\* the text "a-b" of a range
RangeText(a, b) == Render(a) \o <<"-">> \o Render(b)

Counts == 0..MaxCount
Minutes == { 15 * k : k \in 0..MaxCount }

\* frequency: "daily", "weekly", an integer, its text, or a range "a-b"
FrequencySpecs ==
    {PyStr(Daily), PyStr(Weekly)}
        \cup { PyInt(n) : n \in Counts \cup {-1} }
        \cup { PyStr(Render(n)) : n \in Counts }
        \cup { PyStr(RangeText(a, b)) : a \in Counts, b \in Counts }

\* duration: an integer, its text, or a range "a-b"
DurationSpecs ==
    { PyInt(n) : n \in Minutes \cup {-15} }
        \cup { PyStr(Render(n)) : n \in Minutes }
        \cup { PyStr(RangeText(a, b)) : a \in Minutes, b \in Minutes }

\* every way of listing "run" in the four tiers, next to another id
TierChoices ==
    { [critical |-> t[1], high |-> t[2], medium |-> t[3], low |-> t[4]] :
        t \in [1..4 -> {<<"read">>, <<"read", "run">>}] }

\* LifeOSConfig.model_validate: the fields of an Activity are typed str | int,
\* with no validator, so every frequency and duration above is accepted
Activity_validates(activity) ==
    /\ IsInt(activity.frequency) \/ DOMAIN activity.frequency = {"str"}
    /\ IsInt(activity.duration) \/ DOMAIN activity.duration = {"str"}

load_config(raw_config) ==
    IF \A i \in 1..Len(raw_config.activities) :
           Activity_validates(raw_config.activities[i])
    THEN [accepted |-> TRUE, config |-> raw_config]
    ELSE [accepted |-> FALSE, config |-> raw_config]

RawConfigs(v) ==
    { [template |-> t.template, commitments |-> t.commitments,
       activities |-> <<Activity("run", Run, f, d, Pref(v, "flexible"), <<>>)>>,
       priorities |-> RunHighReadMedium] :
        t \in TemplateChoices("root"), f \in FrequencySpecs, d \in DurationSpecs }
    \cup
    { [template |-> t.template, commitments |-> t.commitments,
       activities |-> <<Activity("run", Run, PyInt(3), PyInt(45),
                                 Pref(v, "flexible"), <<>>)>>,
       priorities |-> p] :
        t \in TemplateChoices("root"), p \in TierChoices }

ProbeConfigs(v) ==
    { load_config(raw).config : raw \in { r \in RawConfigs(v) : load_config(r).accepted } }

ProbeInit ==
    /\ variant \in {"root", "apps"}
    /\ config \in ProbeConfigs(variant)
    /\ week_start = 0
    /\ events = <<>>
    /\ phase = "init"
    /\ query = <<>>
    /\ available = <<>>
    /\ analysis = <<>>
    /\ proposals = <<>>
    /\ coverage = <<>>
    /\ booked = 0
    /\ returned = <<>>
    /\ conversations = <<>>

\* activity.get_frequency_range(), activity.get_duration_range()
Root_GetRanges ==
    /\ variant = "root" /\ phase = "init"
    /\ returned' = [frequency_range |-> Root_get_frequency_range(config.activities[1]),
                    duration_range |-> Root_get_duration_range(config.activities[1])]
    /\ phase' = "ranges"
    /\ UNCHANGED <<conversations, variant, config, week_start, events, query, available, analysis,
                   proposals, coverage, booked>>

\* activity.weekly_target, activity.min_duration, activity.max_duration
Apps_GetRanges ==
    /\ variant = "apps" /\ phase = "init"
    /\ returned' = [weekly_target |-> Apps_weekly_target(config.activities[1]),
                    min_duration |-> Apps_min_duration(config.activities[1]),
                    max_duration |-> Apps_max_duration(config.activities[1])]
    /\ phase' = "ranges"
    /\ UNCHANGED <<conversations, variant, config, week_start, events, query, available, analysis,
                   proposals, coverage, booked>>

\* config.get_activity_priority(activity_id)
Root_GetPriority ==
    /\ variant = "root" /\ phase = "init"
    /\ \E activity_id \in {"run", "read", "nap"} :
          /\ query' = [activity_id |-> activity_id]
          /\ returned' = [priority |-> Root_get_activity_priority(config, activity_id)]
    /\ phase' = "priority"
    /\ UNCHANGED <<conversations, variant, config, week_start, events, available, analysis,
                   proposals, coverage, booked>>

\* config.priorities.get_priority(activity_id)
Apps_GetPriority ==
    /\ variant = "apps" /\ phase = "init"
    /\ \E activity_id \in {"run", "read", "nap"} :
          /\ query' = [activity_id |-> activity_id]
          /\ returned' = [priority |-> Apps_get_priority(config.priorities, activity_id)]
    /\ phase' = "priority"
    /\ UNCHANGED <<conversations, variant, config, week_start, events, available, analysis,
                   proposals, coverage, booked>>

\* the timestamps handed to get_week_bounds: two weeks of days, at midnight,
\* during the day and in the last second of the day
ReferenceDates == 0..13
ReferenceTimes == {0, time_of(12, 30), timedelta_days(1) - 1}

\* date.weekday(): Monday is 0
weekday(d) == d % 7

Root_get_week_bounds(start_date) ==
    LET days_since_monday == weekday(date_of(start_date))
        shifted == start_date - timedelta_days(days_since_monday)
        wk_start == datetime_combine(date_of(shifted), time_of(0, 0))
        wk_end == wk_start + timedelta_days(7)
    IN  [week_start |-> wk_start, week_end |-> wk_end]

\* takes a date and returns the dates of the Monday and of the Sunday
Apps_get_week_bounds(reference_date) ==
    LET days_since_monday == weekday(reference_date)
        monday == reference_date - days_since_monday
        sunday == monday + 6
    IN  [monday |-> monday, sunday |-> sunday]

\* scheduler.get_week_bounds(start_date)
Root_GetWeekBounds ==
    /\ variant = "root" /\ phase = "init"
    /\ \E day \in ReferenceDates, t \in ReferenceTimes :
          /\ query' = [timestamp |-> datetime_combine(day, t)]
          /\ returned' = Root_get_week_bounds(datetime_combine(day, t))
    /\ phase' = "week_bounds"
    /\ UNCHANGED <<conversations, variant, config, week_start, events, available, analysis,
                   proposals, coverage, booked>>

\* scheduler.get_week_bounds(reference_date)
Apps_GetWeekBounds ==
    /\ variant = "apps" /\ phase = "init"
    /\ \E day \in ReferenceDates :
          /\ query' = [timestamp |-> datetime_combine(day, time_of(0, 0))]
          /\ returned' = Apps_get_week_bounds(day)
    /\ phase' = "week_bounds"
    /\ UNCHANGED <<conversations, variant, config, week_start, events, available, analysis,
                   proposals, coverage, booked>>

\* scheduler.calculate_weekly_requirements()
Root_CalculateWeeklyRequirements ==
    /\ variant = "root" /\ phase = "init"
    /\ query' = <<>>
    /\ returned' = Root_calculate_weekly_requirements(config)
    /\ phase' = "requirements"
    /\ UNCHANGED <<conversations, variant, config, week_start, events, available, analysis,
                   proposals, coverage, booked>>

Apps_CalculateWeeklyRequirements ==
    /\ variant = "apps" /\ phase = "init"
    /\ query' = <<>>
    /\ returned' = Apps_calculate_weekly_requirements(config)
    /\ phase' = "requirements"
    /\ UNCHANGED <<conversations, variant, config, week_start, events, available, analysis,
                   proposals, coverage, booked>>

ProbeNext ==
    \/ Root_GetRanges
    \/ Apps_GetRanges
    \/ Root_GetPriority
    \/ Apps_GetPriority
    \/ Root_GetWeekBounds
    \/ Apps_GetWeekBounds
    \/ Root_CalculateWeeklyRequirements
    \/ Apps_CalculateWeeklyRequirements

ProbeSpec == ProbeInit /\ [][ProbeNext]_vars

-----------------------------------------------------------------------------
(* C11 *)

\* what the accessors returned for the frequency, as (lower, upper) in root and
\* as the weekly target in apps
FrequencyReads(lower, upper) ==
    IF variant = "root" THEN returned.frequency_range = <<lower, upper>>
    ELSE returned.weekly_target = lower

DurationReads(lower, upper) ==
    IF variant = "root" THEN returned.duration_range = <<lower, upper>>
    ELSE returned.min_duration = lower /\ returned.max_duration = upper

\* C11: frequency "daily" gives (7,7) and target 7, "weekly" gives (1,1) and
\* target 1, an integer n gives (n,n) and target n, a range "a-b" gives (a,b)
\* and target a; a duration integer n gives (n,n) and a duration range "a-b"
\* gives (a,b).
C11_SpecsNormaliseToRanges ==
    phase = "ranges" =>
        LET f == config.activities[1].frequency
            d == config.activities[1].duration
        IN  /\ f = PyStr(Daily) => FrequencyReads(7, 7)
            /\ f = PyStr(Weekly) => FrequencyReads(1, 1)
            /\ \A n \in Counts : f = PyInt(n) => FrequencyReads(n, n)
            /\ \A a \in Counts, b \in Counts :
                  f = PyStr(RangeText(a, b)) => FrequencyReads(a, b)
            /\ \A n \in Minutes : d = PyInt(n) => DurationReads(n, n)
            /\ \A a \in Minutes, b \in Minutes :
                  d = PyStr(RangeText(a, b)) => DurationReads(a, b)

\* the accessors were read for a frequency range with distinct bounds and the
\* duration "30-45"
C11_Witness ==
    /\ phase = "ranges"
    /\ \E a \in Counts, b \in Counts :
          /\ a < b
          /\ config.activities[1].frequency = PyStr(RangeText(a, b))
          /\ FrequencyReads(a, b)
    /\ config.activities[1].duration = PyStr(RangeText(30, 45))
    /\ DurationReads(30, 45)

-----------------------------------------------------------------------------
(* C12 *)

TierOrder == <<"critical", "high", "medium", "low">>

\* the positions in TierOrder of the tiers that list the id
TiersListing(activity_id) ==
    { k \in 1..4 : InSeq(activity_id, config.priorities[TierOrder[k]]) }

\* C12: the priority lookup returns the first tier, in the order critical,
\* high, medium, low, that lists the activity id, and medium for an id that no
\* tier lists.
C12_FirstTierWins ==
    phase = "priority" =>
        returned.priority =
            (IF TiersListing(query.activity_id) = {} THEN "medium"
             ELSE TierOrder[SetMin(TiersListing(query.activity_id))])

\* a lookup of an id listed in both critical and low, which gave critical
C12_Witness ==
    /\ phase = "priority"
    /\ {1, 4} \subseteq TiersListing(query.activity_id)
    /\ returned.priority = "critical"

-----------------------------------------------------------------------------
(* C13 *)

\* the two bounds get_week_bounds returned, as instants: a date stands for its
\* midnight
BoundsStart ==
    IF variant = "root" THEN returned.week_start
    ELSE datetime_combine(returned.monday, time_of(0, 0))

BoundsEnd ==
    IF variant = "root" THEN returned.week_end
    ELSE datetime_combine(returned.sunday, time_of(0, 0))

WeekBoundsHold ==
    /\ weekday(date_of(BoundsStart)) = 0
    /\ time_part(BoundsStart) = 0
    /\ BoundsStart <= query.timestamp
    /\ query.timestamp < BoundsEnd
    /\ BoundsEnd = BoundsStart + timedelta_days(7)

\* C13: get_week_bounds returns as week start the Monday 00:00:00 of the week
\* holding the timestamp (start <= timestamp < end), and a week end exactly 7
\* days after the start.
C13_WeekBounds ==
    phase = "week_bounds" => WeekBoundsHold

\* the same for the root engine alone
C13_RootWeekBounds ==
    (phase = "week_bounds" /\ variant = "root") => WeekBoundsHold

\* root was asked for the bounds of a Wednesday afternoon
C13_RootReached ==
    /\ phase = "week_bounds" /\ variant = "root"
    /\ weekday(date_of(query.timestamp)) = 2
    /\ time_part(query.timestamp) = time_of(12, 30)
    /\ WeekBoundsHold

-----------------------------------------------------------------------------
(* C14 *)

\* a step that is a call of one of the three methods
SchedulerCallReturns ==
    phase' \in {"slots", "slots2", "analysis", "roundtrip", "proposal"}

\* C14: after get_available_slots, analyze_scheduled_vs_required or
\* propose_schedule returns, the event list the caller passed holds exactly the
\* events it held before the call.
C14_EventsReadOnly ==
    [][SchedulerCallReturns => events' = events]_vars

\* the list changes only in the apps get_available_slots
C14_OnlyAppsAvailabilityWrites ==
    [][(SchedulerCallReturns /\ events' # events)
           => (variant = "apps" /\ phase' \in {"slots", "slots2"})]_vars

\* a propose_schedule of the apps engine returned with work blocks in force
C14_AppsProposeReached ==
    /\ variant = "apps" /\ phase = "proposal"
    /\ WorkWindows # {}
    /\ proposals # <<>>

-----------------------------------------------------------------------------
(* C15 *)

\* C15: a second run of the availability calculator with the same event list
\* object, range and minimum gap returns the slot sequence the first run
\* returned.
C15_SecondRunIdentical ==
    phase = "slots2" => returned = available

\* the second run of the apps engine found the work block of the first run in
\* the list, appended its own, and returned the same non-empty slots
C15_Witness ==
    /\ phase = "slots2" /\ variant = "apps"
    /\ \E i \in 1..Len(events), j \in 1..Len(events) :
          i < j /\ events[i] = events[j] /\ events[i].title = <<"W", "o", "r", "k">>
    /\ available # <<>>
    /\ returned = available

-----------------------------------------------------------------------------
(* C16 *)

\* the (lower, upper) bounds the engine reads from an activity; apps exposes
\* the weekly target alone for the frequency
FrequencyBounds(activity) ==
    IF variant = "root" THEN Root_get_frequency_range(activity)
    ELSE <<Apps_weekly_target(activity), Apps_weekly_target(activity)>>

DurationBounds(activity) ==
    IF variant = "root" THEN Root_get_duration_range(activity)
    ELSE <<Apps_min_duration(activity), Apps_max_duration(activity)>>

WellFormedBounds(bounds) ==
    /\ bounds[1] >= 0
    /\ bounds[1] <= bounds[2]

\* C16: every activity of a configuration the loader accepted has duration and
\* frequency bounds that are non-negative integers with min <= max, a range
\* with min > max having been rejected at load time.
C16_AcceptedBoundsWellFormed ==
    phase = "ranges" =>
        \A i \in 1..Len(config.activities) :
            /\ WellFormedBounds(FrequencyBounds(config.activities[i]))
            /\ WellFormedBounds(DurationBounds(config.activities[i]))

\* the loader returned a configuration whose frequency range is inverted, and
\* the engine read it back as it stands
C16_InvertedRangeLoaded ==
    /\ phase = "ranges" /\ variant = "root"
    /\ config.activities[1].frequency = PyStr(RangeText(3, 1))
    /\ returned.frequency_range = <<3, 1>>

-----------------------------------------------------------------------------
(* Calendars with an event that lacks a start or end time: a third state
   machine, of the root engine, whose events are the dicts the calendar API
   returns *)

\* an all-day event (start.date, end.date), an event with neither start nor
\* end, and events with one of the two dateTimes missing
AllDay == [id |-> 0, start |-> [date |-> 2], end |-> [date |-> 3]]
NoTimes == [id |-> 0]
NoEndTime == [id |-> 0, start |-> [dateTime |-> At(2, 10, 0, 0)], end |-> [date |-> 3]]
NoStartTime == [id |-> 0, start |-> [date |-> 2], end |-> [dateTime |-> At(2, 11, 0, 0)]]

\* the event with extendedProperties.private.lifeos_activity_id set
Tagged(event, activity_id) ==
    [k \in DOMAIN event \cup {"extendedProperties"} |->
        IF k = "extendedProperties"
        THEN [private |-> [lifeos_activity_id |-> activity_id,
                           lifeos_generated |-> "true"]]
        ELSE event[k]]

MalformedEvents ==
    LET bare == {AllDay, NoTimes, NoEndTime, NoStartTime}
    IN  bare \cup { Tagged(e, "run") : e \in bare }

InsertAt(list, p, x) ==
    SubSeq(list, 1, p - 1) \o <<x>> \o SubSeq(list, p, Len(list))

\* a calendar of well-formed events with one malformed event at any position
MalformedEventLists ==
    UNION { { InsertAt(list, p, bad) :
                p \in 1..(Len(list) + 1), bad \in MalformedEvents } :
            list \in EventLists("root") }

MalformedInit ==
    /\ variant = "root"
    /\ config \in { [template |-> t.template, commitments |-> t.commitments,
                     activities |-> a, priorities |-> RunHighReadMedium] :
                      t \in TemplateChoices("root"),
                      a \in {RunOnly("root"), RunAndRead("root")} }
    /\ week_start = 0
    /\ events \in MalformedEventLists
    /\ phase = "init"
    /\ query = <<>>
    /\ available = <<>>
    /\ analysis = <<>>
    /\ proposals = <<>>
    /\ coverage = <<>>
    /\ booked = 0
    /\ returned = <<>>
    /\ conversations = <<>>

MalformedNext ==
    \/ Root_GetAvailableSlots
    \/ Root_Analyze

MalformedSpec == MalformedInit /\ [][MalformedNext]_vars

-----------------------------------------------------------------------------
(* C17 *)

HasTimes(event) ==
    /\ "start" \in DOMAIN event /\ "dateTime" \in DOMAIN event.start
    /\ "end" \in DOMAIN event /\ "dateTime" \in DOMAIN event.end

WellFormedEvents == SelectSeq(events, HasTimes)

\* what a call returned is what the well-formed events alone give
ResultFromWellFormed ==
    /\ phase = "slots" =>
          available = Root_get_available_slots(WellFormedEvents, query.start,
                                               query.end, query.min_duration)
    /\ phase = "analysis" =>
          analysis = Root_analyze_scheduled_vs_required(config, WellFormedEvents,
                         week_start, week_start + timedelta_days(7))

\* C17: an event that lacks a usable start or end time is skipped:
\* get_available_slots and analyze_scheduled_vs_required do not raise but
\* return the result computed from the remaining well-formed events, wherever
\* the malformed event stands in the list and whether or not it is tagged.
C17_MalformedEventSkipped ==
    /\ phase # "raised"
    /\ ResultFromWellFormed

\* when a call does return, it returns the result of the well-formed events
C17_ReturnsFromWellFormed == ResultFromWellFormed

\* an all-day event without a tag was skipped by both methods
C17_UntaggedAllDaySkipped ==
    /\ phase \in {"slots", "analysis"}
    /\ \E i \in 1..Len(events) : events[i] = AllDay
    /\ Len(WellFormedEvents) = MaxEvents
    /\ ResultFromWellFormed

-----------------------------------------------------------------------------
(* C18 *)

\* the position in the configuration of the activity of a proposal
PositionOf(proposal) ==
    CHOOSE i \in 1..Len(config.activities) :
        config.activities[i].id = proposal.activity.id

\* critical = 0, high = 1, medium = 2, low = 3
PriorityRank(i) ==
    LET priority == PriorityOf(config.activities[i])
    IN  CASE priority = "critical" -> 0 [] priority = "high" -> 1
          [] priority = "medium" -> 2 [] priority = "low" -> 3

\* the activity at position i comes before the one at position j in the order
\* (priority rank ascending, deficit descending, configuration order)
ComesBefore(i, j) ==
    \/ PriorityRank(i) < PriorityRank(j)
    \/ /\ PriorityRank(i) = PriorityRank(j)
       /\ InitialDeficit(i) > InitialDeficit(j)
    \/ /\ PriorityRank(i) = PriorityRank(j)
       /\ InitialDeficit(i) = InitialDeficit(j)
       /\ i < j

\* the same order without the deficit
ComesBeforeByPriority(i, j) ==
    \/ PriorityRank(i) < PriorityRank(j)
    \/ PriorityRank(i) = PriorityRank(j) /\ i < j

\* C18: in the list propose_schedule returns, all sessions of an activity that
\* comes earlier in the order (priority rank ascending, then session deficit
\* descending, then configuration order) precede all sessions of an activity
\* that comes later.
C18_SessionsInProcessingOrder ==
    phase = "proposal" =>
        \A p \in 1..Len(proposals), q \in 1..Len(proposals) :
            (p < q /\ PositionOf(proposals[p]) # PositionOf(proposals[q]))
                => ComesBefore(PositionOf(proposals[p]), PositionOf(proposals[q]))

\* what each engine does keep: root the order of the claim, apps the order by
\* priority rank and configuration order
C18_EngineOrders ==
    phase = "proposal" =>
        \A p \in 1..Len(proposals), q \in 1..Len(proposals) :
            (p < q /\ PositionOf(proposals[p]) # PositionOf(proposals[q]))
                => IF variant = "root"
                   THEN ComesBefore(PositionOf(proposals[p]), PositionOf(proposals[q]))
                   ELSE ComesBeforeByPriority(PositionOf(proposals[p]),
                                              PositionOf(proposals[q]))

\* root put the sessions of the second activity of the configuration first
\* because its deficit is the larger one of two activities of the same tier
C18_RootDeficitDecides ==
    /\ phase = "proposal" /\ variant = "root"
    /\ Len(config.activities) = 2
    /\ PriorityRank(1) = PriorityRank(2)
    /\ InitialDeficit(2) > InitialDeficit(1)
    /\ ProposalsFor(config.activities[1].id) # {}
    /\ ProposalsFor(config.activities[2].id) # {}
    /\ PositionOf(proposals[1]) = 2

-----------------------------------------------------------------------------
(* C19 *)

\* the available list as the pass leaves it: the pass replayed to its end
FinalAvailable ==
    IF variant = "root"
    THEN Root_schedule_all([available |-> PassAvailable, proposals |-> <<>>],
                           RootTodo, 1).available
    ELSE Apps_schedule_all(config,
                           [available |-> PassAvailable,
                            proposed_events |-> <<>>,
                            scheduled_counts |-> AppsInitialCounts],
                           AppsOrder, 1).available

\* the pass ended with the activity at position i below its target
Residual(i) ==
    MatchedCount(i) + ProposedCount(i) < Target(config.activities[i])

\* a slot left in the list, eligible for the activity, is long enough for it
SlotLeftFor(i) ==
    LET eligible == Offered(config.activities[i], FinalAvailable)
    IN  \E k \in 1..Len(eligible) :
            duration_minutes(eligible[k]) >= MinDur(config.activities[i])

\* C19: when the pass ends with an activity's proposed plus pre-existing
\* sessions below its target, no slot remaining in the list that is eligible
\* for the activity (preference-filtered, or unfiltered on fallback) has a
\* duration of at least the activity's minimum duration.
C19_ResidualOnlyWithoutSlot ==
    phase = "proposal" =>
        \A i \in 1..Len(config.activities) : Residual(i) => ~SlotLeftFor(i)

\* what does hold of an activity left below its target: every slot its walk
\* went through was too short or received one session of it
C19_ResidualAfterOneSessionPerSlot ==
    phase = "proposal" =>
        \A i \in 1..Len(config.activities) :
            Residual(i) =>
                \A k \in 1..Len(WalkAtTurn(i)) :
                    \/ duration_minutes(WalkAtTurn(i)[k]) < MinDur(config.activities[i])
                    \/ BookedAtStartOf(i, WalkAtTurn(i)[k])

\* a pass ended with an activity below its target and no eligible slot left
C19_ResidualWithoutSlotReached ==
    /\ phase = "proposal"
    /\ \E i \in 1..Len(config.activities) :
          /\ Residual(i) /\ ~SlotLeftFor(i)
          /\ ProposedCount(i) > 0

-----------------------------------------------------------------------------
(* C20 *)

\* C20: propose_schedule never over-books: an activity whose session deficit is
\* zero receives no proposal, and every other activity receives at most as many
\* sessions as its initial session deficit.
C20_NeverOverBooks ==
    phase = "proposal" =>
        \A i \in 1..Len(config.activities) :
            /\ InitialDeficit(i) = 0 => ProposedCount(i) = 0
            /\ ProposedCount(i) <= InitialDeficit(i)

\* a pass over a calendar that already meets one activity's target, which got
\* no proposal, while another activity got exactly its deficit with more slots
\* on offer than it needed
C20_Witness ==
    /\ phase = "proposal"
    /\ \E i \in 1..Len(config.activities), j \in 1..Len(config.activities) :
          /\ InitialDeficit(i) = 0
          /\ MatchedCount(i) >= Target(config.activities[i])
          /\ Target(config.activities[i]) > 0
          /\ ProposedCount(i) = 0
          /\ InitialDeficit(j) > 0
          /\ ProposedCount(j) = InitialDeficit(j)
          /\ Cardinality({ k \in 1..Len(WalkAtTurn(j)) :
                             duration_minutes(WalkAtTurn(j)[k])
                                 >= MinDur(config.activities[j]) }) > InitialDeficit(j)

-----------------------------------------------------------------------------
(* C21 *)

\* the proposal starts where the slot starts, lasts the minimum duration of the
\* activity at position i, and ends inside the slot
CarvedFrom(p, i, slot) ==
    /\ PStart(p) = slot.start
    /\ PEnd(p) = PStart(p) + timedelta_minutes(MinDur(config.activities[i]))
    /\ PEnd(p) <= slot.end

\* C21: every proposed session starts at the current start of an available
\* slot, lasts exactly the activity's minimum session duration in whole
\* minutes, and ends no later than that slot's end.
C21_SessionCarvedFromSlot ==
    phase = "proposal" =>
        \A i \in 1..Len(config.activities) :
            LET walk == WalkAtTurn(i)
            IN  \A p \in ProposalsFor(config.activities[i].id) :
                    \E k \in 1..Len(walk) : CarvedFrom(proposals[p], i, walk[k])

\* a pass that carved one session from a slot whose length in seconds is not a
\* whole number of minutes, and another from what an earlier activity's
\* session left of a slot
C21_Witness ==
    /\ phase = "proposal"
    /\ \E i \in 1..Len(config.activities) :
          \E p \in ProposalsFor(config.activities[i].id), k \in 1..Len(WalkAtTurn(i)) :
              /\ CarvedFrom(proposals[p], i, WalkAtTurn(i)[k])
              /\ (WalkAtTurn(i)[k].end - WalkAtTurn(i)[k].start) % SecondsPerMinute # 0
    /\ \E i \in 1..Len(config.activities) :
          \E p \in ProposalsFor(config.activities[i].id), k \in 1..Len(WalkAtTurn(i)) :
              /\ CarvedFrom(proposals[p], i, WalkAtTurn(i)[k])
              /\ \A n \in 1..Len(PassAvailable) :
                     PassAvailable[n].start # WalkAtTurn(i)[k].start

-----------------------------------------------------------------------------
(* C22 *)

\* the number of activities the pass takes, and the pass after the first n
\* of them: the available list and the proposals made so far
Turns == IF variant = "root" THEN Len(RootTodo) ELSE Len(AppsOrder)

AvailableAfter(n) ==
    IF variant = "root"
    THEN Root_schedule_all([available |-> PassAvailable, proposals |-> <<>>],
                           SubSeq(RootTodo, 1, n), 1).available
    ELSE Apps_schedule_all(config,
                           [available |-> PassAvailable,
                            proposed_events |-> <<>>,
                            scheduled_counts |-> AppsInitialCounts],
                           SubSeq(AppsOrder, 1, n), 1).available

ProposedAfter(n) ==
    IF variant = "root"
    THEN Len(Root_schedule_all([available |-> PassAvailable, proposals |-> <<>>],
                               SubSeq(RootTodo, 1, n), 1).proposals)
    ELSE Len(Apps_schedule_all(config,
                               [available |-> PassAvailable,
                                proposed_events |-> <<>>,
                                scheduled_counts |-> AppsInitialCounts],
                               SubSeq(AppsOrder, 1, n), 1).proposed_events)

HoldsSlot(slots, start, end) ==
    \E k \in 1..Len(slots) : slots[k].start = start /\ slots[k].end = end

\* over the turn of the n-th activity: a slot it booked a session at the start
\* of, without using it up, is in the list afterwards with its start advanced
\* to the end of the session; a slot it booked nothing in is in the list as
\* it was
RemainderKept(n) ==
    LET before == AvailableAfter(n - 1)
        after == AvailableAfter(n)
        made == (ProposedAfter(n - 1) + 1)..ProposedAfter(n)
    IN  \A k \in 1..Len(before) :
            LET slot == before[k]
                here == { p \in made : PStart(proposals[p]) = slot.start }
            IN  /\ \A p \in here :
                       PEnd(proposals[p]) < slot.end
                           => HoldsSlot(after, PEnd(proposals[p]), slot.end)
                /\ here = {} => HoldsSlot(after, slot.start, slot.end)

\* C22: after a session is booked at the start of a free slot that is longer
\* than the session, the unconsumed remainder stays in the available list for
\* every activity processed later in the pass (the same slot with its start
\* advanced, or a new slot replacing the original).
C22_RemainderStaysAvailable ==
    phase = "proposal" => \A n \in 1..Turns : RemainderKept(n)

\* a pass in which a later activity booked its session at the start of the
\* remainder an earlier activity's session left
C22_Witness ==
    /\ phase = "proposal"
    /\ Turns >= 2
    /\ \E p \in 1..ProposedAfter(1), q \in (ProposedAfter(1) + 1)..Len(proposals) :
          /\ PStart(proposals[q]) = PEnd(proposals[p])
          /\ HoldsSlot(AvailableAfter(1), PEnd(proposals[p]),
                       SetMin({ e \in { AvailableAfter(0)[k].end :
                                          k \in 1..Len(AvailableAfter(0)) } :
                                  e > PStart(proposals[p]) }))

-----------------------------------------------------------------------------
(* C23 *)

Chronological(ivs) ==
    \A i, j \in 1..Len(ivs) : i < j => ivs[i].start <= ivs[j].start

NoSlotMeetsBusy ==
    \A i \in 1..Len(available), j \in 1..Len(BusyIntervals) :
        ~overlaps(available[i], BusyIntervals[j])

\* C23: for any collection of busy intervals (overlapping, nested, duplicated,
\* in any order) no free slot get_available_slots returns intersects a busy
\* interval, and the returned slots are in chronological order and pairwise
\* disjoint.
C23_SweepAbsorbsOverlaps ==
    phase = "slots" =>
        /\ NoSlotMeetsBusy
        /\ Chronological(available)
        /\ PairwiseDisjoint(available)

\* the same for the root engine, and for apps without the busy intervals
\* that run past the day they start on
C23_SweepWithinOneDay ==
    (/\ phase = "slots"
     /\ variant = "apps" =>
            \A j \in 1..Len(BusyIntervals) :
                date_of(BusyIntervals[j].end - 1) = date_of(BusyIntervals[j].start))
        => /\ NoSlotMeetsBusy
           /\ Chronological(available)
           /\ PairwiseDisjoint(available)

\* root swept two overlapping busy intervals, the later-starting one listed
\* first, and returned slots around them
C23_RootOverlapSwept ==
    /\ phase = "slots" /\ variant = "root"
    /\ Len(BusyIntervals) = 2
    /\ overlaps(BusyIntervals[1], BusyIntervals[2])
    /\ BusyIntervals[2].start < BusyIntervals[1].start
    /\ Len(available) >= 1
    /\ NoSlotMeetsBusy

-----------------------------------------------------------------------------
(* Calendars with an event late in the evening, after the end of the windows
   asked about: a fourth state machine, of the availability calculators *)

LateEvent ==
    [start |-> At(1, 23, 0, 0), end |-> At(1, 23, 30, 0), tag |-> None,
     title |-> <<"L", "a", "t", "e">>]

\* a calendar with the late event at any position
LateEventLists(v) ==
    UNION { { InsertAt(list, p, IF v = "root" THEN Root_event(0, LateEvent)
                                ELSE Apps_event(0, LateEvent)) :
                p \in 1..(Len(list) + 1) } :
            list \in EventLists(v) }

\* events tagged for the activity that start outside the week: on the Sunday
\* before it and on the Monday after it
StrayEvents ==
    { [start |-> At(-1, 7, 0, 0), end |-> At(-1, 7, 45, 0), tag |-> "run", title |-> Run],
      [start |-> At(7, 7, 0, 0), end |-> At(7, 7, 45, 0), tag |-> "run", title |-> Run] }

\* a calendar with one of them at any position
StrayEventLists(v) ==
    UNION { { InsertAt(list, p, IF v = "root" THEN Root_event(0, stray)
                                ELSE Apps_event(0, stray)) :
                p \in 1..(Len(list) + 1), stray \in StrayEvents } :
            list \in EventLists(v) }

\* MockCalendarClient.list_events: the events that start on a date from start
\* to end
Mock_list_events(stored, start, end) ==
    SelectSeq(stored, LAMBDA e : start <= date_of(e.start) /\ date_of(e.start) <= end)

\* the loop of find_free_time over the sorted events; a gap is kept when
\* its length in minutes, a float, is at least duration_minutes
RECURSIVE Mock_find_gaps(_, _, _, _, _)
Mock_find_gaps(sorted, i, current, duration_minutes_, acc) ==
    IF i > Len(sorted) THEN [current |-> current, free_slots |-> acc]
    ELSE LET event == sorted[i]
             acc2 == IF event.start > current
                        /\ event.start - current >= timedelta_minutes(duration_minutes_)
                     THEN Append(acc, <<current, event.start>>) ELSE acc
         IN  Mock_find_gaps(sorted, i + 1, Max(current, event.end), duration_minutes_, acc2)

Mock_find_free_time(stored, date_, duration_minutes_, start_hour, end_hour) ==
    LET listed == Mock_list_events(stored, date_, date_)
        day_start == datetime_combine(date_, time_of(start_hour, 0))
        day_end == datetime_combine(date_, time_of(end_hour, 0))
        swept == Mock_find_gaps(SortByStart(listed), 1, day_start, duration_minutes_, <<>>)
    IN  IF swept.current < day_end
           /\ day_end - swept.current >= timedelta_minutes(duration_minutes_)
        THEN Append(swept.free_slots, <<swept.current, day_end>>)
        ELSE swept.free_slots

\* calendar.find_free_time(date_, duration_minutes) on the mock calendar that
\* holds the events
Mock_FindFreeTime ==
    /\ variant = "apps" /\ phase = "init"
    /\ \E date_ \in 0..1, minutes \in MinDurations :
          /\ query' = [date_ |-> date_, duration_minutes |-> minutes,
                       start_hour |-> 6, end_hour |-> 22]
          /\ returned' = Mock_find_free_time(events, date_, minutes, 6, 22)
    /\ phase' = "free_time"
    /\ UNCHANGED <<conversations, variant, config, week_start, events, available, analysis,
                   proposals, coverage, booked>>

\* the preferences the filter is called with: root's time_preference is None
\* (<<>>) or a list, apps' one TimePreference
TimePreferences(v) ==
    IF v = "root"
    THEN {<<>>, <<"morning">>, <<"afternoon">>, <<"evening">>, <<"flexible">>,
          <<"morning", "evening">>}
    ELSE {"morning", "afternoon", "evening", "flexible"}

DayPreferences == {<<>>, <<"tuesday">>, <<"monday", "wednesday">>}

\* scheduler.filter_slots_by_preference(slots, time_preference, day_preference)
\* on the slots get_available_slots returned
Root_FilterSlots ==
    /\ variant = "root" /\ phase = "slots"
    /\ \E time_preference \in TimePreferences("root"), day_preference \in DayPreferences :
          /\ query' = [slots |-> available, time_preference |-> time_preference,
                       day_preference |-> day_preference]
          /\ returned' = Root_filter_slots_by_preference(available, time_preference,
                                                         day_preference)
    /\ phase' = "filtered"
    /\ UNCHANGED <<conversations, variant, config, week_start, events, available, analysis,
                   proposals, coverage, booked>>

\* scheduler.filter_slots_by_preference(slots, activity)
Apps_FilterSlots ==
    /\ variant = "apps" /\ phase = "slots"
    /\ \E time_preference \in TimePreferences("apps"), day_preference \in DayPreferences :
          /\ query' = [slots |-> available, time_preference |-> <<time_preference>>,
                       day_preference |-> day_preference]
          /\ returned' = Apps_filter_slots_by_preference(available,
                            Activity("run", Run, PyInt(3), PyInt(45), time_preference,
                                     day_preference))
    /\ phase' = "filtered"
    /\ UNCHANGED <<conversations, variant, config, week_start, events, available, analysis,
                   proposals, coverage, booked>>

WindowInit ==
    /\ variant \in {"root", "apps"}
    /\ config \in { c \in Configs(variant) :
                      c.activities = RunOnly(variant) /\ DOMAIN c.template # {} }
    /\ week_start = 0
    /\ events \in LateEventLists(variant) \cup StrayEventLists(variant)
    /\ phase = "init"
    /\ query = <<>>
    /\ available = <<>>
    /\ analysis = <<>>
    /\ proposals = <<>>
    /\ coverage = <<>>
    /\ booked = 0
    /\ returned = <<>>
    /\ conversations = <<>>

WindowNext ==
    \/ Root_GetAvailableSlots
    \/ Apps_GetAvailableSlots
    \/ Mock_FindFreeTime
    \/ Root_FilterSlots
    \/ Apps_FilterSlots
    \/ Root_Analyze
    \/ Apps_Analyze

WindowSpec == WindowInit /\ [][WindowNext]_vars

-----------------------------------------------------------------------------
(* C27 *)

\* the free slots of the last call, as intervals, and the windows it was
\* asked about
FreeSlots ==
    IF phase = "free_time"
    THEN [k \in 1..Len(returned) |-> Interval(returned[k][1], returned[k][2])]
    ELSE [k \in 1..Len(available) |-> Interval(available[k].start, available[k].end)]

AskedWindows ==
    IF phase = "free_time"
    THEN { Interval(datetime_combine(query.date_, time_of(query.start_hour, 0)),
                    datetime_combine(query.date_, time_of(query.end_hour, 0))) }
    ELSE Windows

\* C27: every free slot get_available_slots (or find_free_time) returns lies
\* inside the window asked about, start <= slot.start < slot.end <= end,
\* whatever the busy events, those that start before the window or after its
\* end included.
C27_SlotsInsideWindow ==
    phase \in {"slots", "free_time"} =>
        \A k \in 1..Len(FreeSlots) :
            \E w \in AskedWindows :
                /\ w.start <= FreeSlots[k].start
                /\ FreeSlots[k].start < FreeSlots[k].end
                /\ FreeSlots[k].end <= w.end

\* what holds: every free slot is non-empty, starts no earlier than a window's
\* start, and ends by the window's end unless it ends where an event starts
C27_SlotsStartInsideWindow ==
    phase \in {"slots", "free_time"} =>
        \A k \in 1..Len(FreeSlots) :
            /\ FreeSlots[k].start < FreeSlots[k].end
            /\ \E w \in AskedWindows :
                  /\ w.start <= FreeSlots[k].start
                  /\ \/ FreeSlots[k].end <= w.end
                     \/ \E j \in 1..Len(BusyIntervals) :
                           BusyIntervals[j].start = FreeSlots[k].end

-----------------------------------------------------------------------------
(* C24 *)

\* the condition of the claim on one slot: its start day is among the preferred
\* days, if any, and its start hour lies in the band of a preferred time of
\* day, if any is named and none of them is 'flexible'
InBand(slot, pref) ==
    LET hour == hour_of(slot.start)
    IN  \/ pref = "morning" /\ 5 <= hour /\ hour < 12
        \/ pref = "afternoon" /\ 12 <= hour /\ hour < 17
        \/ pref = "evening" /\ 17 <= hour /\ hour < 22

SatisfiesPreference(slot, time_preference, day_preference) ==
    /\ day_preference = <<>> \/ InSeq(day_name(slot.start), day_preference)
    /\ \/ time_preference = <<>>
       \/ InSeq("flexible", time_preference)
       \/ \E i \in 1..Len(time_preference) : InBand(slot, time_preference[i])

Satisfying ==
    SelectSeq(query.slots, LAMBDA slot :
        SatisfiesPreference(slot, query.time_preference, query.day_preference))

\* C24: filter_slots_by_preference returns exactly the subsequence of the input
\* slots, in input order, of the slots whose start day is preferred (or no day
\* is) and whose start hour lies in a preferred band, morning [05:00, 12:00),
\* afternoon [12:00, 17:00), evening [17:00, 22:00) (or no time of day is
\* preferred, or 'flexible' is).
C24_FilterIsPreferredSubsequence ==
    phase = "filtered" => returned = Satisfying

\* what holds: root returns that subsequence; apps returns every slot of a
\* preferred day, those of the preferred band (from 06:00 for the morning)
\* first
C24_RootSubsequenceAppsPreferredFirst ==
    phase = "filtered" =>
        IF variant = "root" THEN returned = Satisfying
        ELSE LET day_ok == SelectSeq(query.slots, LAMBDA slot :
                             SatisfiesPreference(slot, <<>>, query.day_preference))
                 in_band(slot) ==
                     \/ query.time_preference = <<"flexible">>
                     \/ /\ InBand(slot, query.time_preference[1])
                        /\ time_part(slot.start) >= timedelta_hours(6)
             IN  returned = SelectSeq(day_ok, in_band)
                            \o SelectSeq(day_ok, LAMBDA slot : ~in_band(slot))

\* a root call with a day and a time preference that kept a slot and dropped
\* an earlier one
C24_RootFiltered ==
    /\ phase = "filtered" /\ variant = "root"
    /\ query.time_preference # <<>> /\ query.day_preference # <<>>
    /\ Len(returned) >= 1
    /\ \E k \in 1..Len(query.slots) :
          /\ query.slots[k].start < returned[1].start
          /\ ~SatisfiesPreference(query.slots[k], query.time_preference,
                                  query.day_preference)

-----------------------------------------------------------------------------
(* C25 *)

UntaggedCount ==
    Cardinality({ k \in 1..Len(events) :
                    IF variant = "root" THEN Root_event_tag(events[k]) = None
                    ELSE Falsy(events[k].activity_id) })

\* C25: an event with a tag counts toward the activity with that id and no
\* other, and the match of an untagged event by its title (the activity's
\* display name occurs in it, whatever the case) is used only for an activity
\* whose tag no event carries: an activity with tagged events is counted by
\* its tagged events alone, and one without by untagged events at most.
C25_TitleMatchOnlyWithoutTag ==
    phase = "analysis" =>
        \A i \in 1..Len(analysis) :
            LET id == config.activities[i].id
                scheduled == analysis[i].scheduled_sessions
            IN  /\ TaggedCount(id) > 0 => scheduled = TaggedCount(id)
                /\ TaggedCount(id) = 0 => scheduled <= UntaggedCount

\* what holds: root counts the tagged events and nothing else; apps counts the
\* tagged events and, on top of them, untagged ones
C25_TaggedAlwaysCounted ==
    phase = "analysis" =>
        \A i \in 1..Len(analysis) :
            LET id == config.activities[i].id
                scheduled == analysis[i].scheduled_sessions
            IN  /\ TaggedCount(id) <= scheduled
                /\ scheduled <= TaggedCount(id) + UntaggedCount
                /\ variant = "root" => scheduled = TaggedCount(id)

\* an apps analysis that counted an untagged event by its title for an
\* activity without tagged events, beside an activity that got nothing
C25_TitleMatched ==
    /\ phase = "analysis" /\ variant = "apps"
    /\ \E i \in 1..Len(analysis) :
          /\ TaggedCount(config.activities[i].id) = 0
          /\ analysis[i].scheduled_sessions = 1
    /\ \E i \in 1..Len(analysis) : analysis[i].scheduled_sessions = 0

-----------------------------------------------------------------------------
(* C26 *)

\* the range (min, max) an activity's frequency denotes
FrequencyRange(activity) == Root_get_frequency_range(activity)

\* the entries of a requirement under the names of the claim: the apps engine
\* keeps one session count, target_sessions
MinSessions(req) == IF variant = "root" THEN req.min_sessions ELSE req.target_sessions
MaxSessions(req) == IF variant = "root" THEN req.max_sessions ELSE req.target_sessions
TotalMinMinutes(req) == IF variant = "root" THEN req.total_min_minutes ELSE req.min_minutes
TotalMaxMinutes(req) == IF variant = "root" THEN req.total_max_minutes ELSE req.max_minutes

\* C26: calculate_weekly_requirements returns one entry per activity, with
\* (minSessions, maxSessions) the frequency range, totalMinMinutes =
\* minSessions * minDuration, totalMaxMinutes = maxSessions * maxDuration and
\* priority the priority lookup of the activity; hence totalMinMinutes <=
\* totalMaxMinutes whenever both ranges have min <= max.
C26_WeeklyRequirements ==
    phase = "requirements" =>
        /\ Len(returned) = Len(config.activities)
        /\ \A i \in 1..Len(returned) :
              LET req == returned[i]
                  activity == config.activities[i]
                  freq == FrequencyRange(activity)
                  dur == DurationBounds(activity)
              IN  /\ req.activity = activity
                  /\ MinSessions(req) = freq[1]
                  /\ MaxSessions(req) = freq[2]
                  /\ TotalMinMinutes(req) = freq[1] * dur[1]
                  /\ TotalMaxMinutes(req) = freq[2] * dur[2]
                  /\ req.priority = PriorityOf(activity)
                  /\ (freq[1] <= freq[2] /\ dur[1] <= dur[2]) =>
                         TotalMinMinutes(req) <= TotalMaxMinutes(req)

\* what holds: root's entries are the ones of the claim and apps' are built
\* from the lower frequency bound alone; the totals are ordered when the
\* ranges are ordered and not negative
C26_RequirementsPerEngine ==
    phase = "requirements" =>
        /\ Len(returned) = Len(config.activities)
        /\ \A i \in 1..Len(returned) :
              LET req == returned[i]
                  activity == config.activities[i]
                  freq == FrequencyRange(activity)
                  dur == DurationBounds(activity)
              IN  /\ req.activity = activity
                  /\ MinSessions(req) = freq[1]
                  /\ MaxSessions(req) = IF variant = "root" THEN freq[2] ELSE freq[1]
                  /\ TotalMinMinutes(req) = MinSessions(req) * dur[1]
                  /\ TotalMaxMinutes(req) = MaxSessions(req) * dur[2]
                  /\ req.priority = PriorityOf(activity)
                  /\ (0 <= freq[1] /\ freq[1] <= freq[2] /\ 0 <= dur[1] /\ dur[1] <= dur[2]) =>
                         TotalMinMinutes(req) <= TotalMaxMinutes(req)

\* root computed the requirements of an activity with two proper ranges
C26_RootRanges ==
    /\ phase = "requirements" /\ variant = "root"
    /\ returned[1].min_sessions < returned[1].max_sessions
    /\ returned[1].min_duration < returned[1].max_duration
    /\ 0 < returned[1].total_min_minutes
    /\ returned[1].total_min_minutes < returned[1].total_max_minutes

-----------------------------------------------------------------------------
(* C28 *)

\* C28: no session propose_schedule proposes overlaps a calendar event that
\* was passed to it, whether the events overlap one another or run over
\* several days.
C28_NoProposalOverEvent ==
    phase = "proposal" =>
        \A i \in 1..Len(proposals), j \in 1..Len(BusyIntervals) :
            ~overlaps(ProposalIntervals[i], BusyIntervals[j])

\* the part of a busy interval the engine sweeps: all of it in root, the part
\* on the day it starts in apps
SweptPart(busy) ==
    IF variant = "root" THEN busy
    ELSE Interval(busy.start,
                  Min(busy.end, datetime_combine(date_of(busy.start) + 1, 0)))

\* what holds: no proposal overlaps the swept part of an event
C28_NoProposalOverSweptPart ==
    phase = "proposal" =>
        \A i \in 1..Len(proposals), j \in 1..Len(BusyIntervals) :
            ~overlaps(ProposalIntervals[i], SweptPart(BusyIntervals[j]))

\* a root pass over two overlapping events, one of them running over several
\* days, that proposed a session
C28_RootAroundOverlap ==
    /\ phase = "proposal" /\ variant = "root"
    /\ Len(BusyIntervals) = 2
    /\ overlaps(BusyIntervals[1], BusyIntervals[2])
    /\ \E j \in 1..2 : date_of(BusyIntervals[j].end - 1) > date_of(BusyIntervals[j].start)
    /\ Len(proposals) >= 1

-----------------------------------------------------------------------------
(* C29 *)

StartsInWeek(k) ==
    LET start == IF variant = "root" THEN events[k].start.dateTime ELSE events[k].start
    IN  datetime_combine(0, 0) <= start /\ start < datetime_combine(7, 0)

\* the calendar without the events that start outside the analysed week
EventsOfWeek ==
    LET kept == SelectSeq([k \in 1..Len(events) |-> k], StartsInWeek)
    IN  [n \in 1..Len(kept) |-> events[kept[n]]]

AnalysisOfWeek ==
    IF variant = "root"
    THEN Root_analyze_scheduled_vs_required(config, EventsOfWeek, week_start,
                                            week_start + timedelta_days(7))
    ELSE Apps_analyze_scheduled_vs_required(config, EventsOfWeek, week_start)

\* C29: analyze_scheduled_vs_required counts only the events that start within
\* the analysed week: an event tagged for an activity that starts before
\* week_start or at or after the week's end changes neither its
\* scheduled_sessions, nor its scheduled_minutes, nor its deficit.
C29_CountsWeekOnly ==
    phase = "analysis" =>
        \A i \in 1..Len(analysis) :
            /\ analysis[i].scheduled_sessions = AnalysisOfWeek[i].scheduled_sessions
            /\ analysis[i].scheduled_minutes = AnalysisOfWeek[i].scheduled_minutes
            /\ AnalysisDeficit(i) =
                   IF variant = "root" THEN AnalysisOfWeek[i].sessions_deficit
                   ELSE AnalysisOfWeek[i].gap_sessions

\* the same statement for the apps engine alone, which compares the start date
\* of every event with the week
C29_AppsCountsWeekOnly ==
    variant = "apps" => C29_CountsWeekOnly

\* an apps analysis of a calendar with a tagged event of the week and a tagged
\* event outside it, counting one session
C29_AppsStrayIgnored ==
    /\ phase = "analysis" /\ variant = "apps"
    /\ \E k \in 1..Len(events) : ~StartsInWeek(k) /\ events[k].activity_id = "run"
    /\ \E k \in 1..Len(events) : StartsInWeek(k) /\ events[k].activity_id = "run"
    /\ analysis[1].scheduled_sessions = 1

-----------------------------------------------------------------------------
(* The agent's conversation history (apps agent.py): a fifth state machine,
   of chat turns of one user *)

\* `if len(conv) > 40: self._conversations[user_id] = conv[-40:]`
MaxHistory == 40

\* how many times the model answers with tool calls within one chat call
MaxToolRounds == 1

Users == {"default"}

\* a message of the history; the content is kept by its kind: the text of the
\* user or of the assistant, the assistant's tool_use blocks, the tool_result
\* blocks sent back
Message(role, content) == [role |-> role, content |-> content]

\* LifeOSAgent._get_conversation
Agent_get_conversation(convs, user_id) == Get(convs, user_id, <<>>)

\* LifeOSAgent._add_message: the conversations after the call
Agent_add_message(convs, user_id, role, content) ==
    LET conv == Append(Agent_get_conversation(convs, user_id), Message(role, content))
        kept == IF Len(conv) > MaxHistory
                THEN SubSeq(conv, Len(conv) - MaxHistory + 1, Len(conv))
                ELSE conv
    IN  [u \in DOMAIN convs \cup {user_id} |-> IF u = user_id THEN kept ELSE convs[u]]

\* the tool rounds of the chat call in progress: the (tool_use, tool_result)
\* pairs at the end of the history
RECURSIVE ToolRoundsAtEnd(_)
ToolRoundsAtEnd(conv) ==
    IF Len(conv) >= 2 /\ conv[Len(conv)].content = "tool_result"
       /\ conv[Len(conv) - 1].content = "tool_use"
    THEN 1 + ToolRoundsAtEnd(SubSeq(conv, 1, Len(conv) - 2))
    ELSE 0

\* chat(message, user_id), up to its first client.messages.create: the user
\* message is added and the history is sent
Agent_Chat ==
    /\ phase \in {"init", "replied"}
    /\ \E user_id \in Users :
          LET convs == Agent_add_message(conversations, user_id, "user", "text")
          IN  /\ conversations' = convs
              /\ query' = [user_id |-> user_id,
                           messages |-> Agent_get_conversation(convs, user_id)]
    /\ phase' = "awaiting"
    /\ UNCHANGED <<variant, config, week_start, events, available, analysis,
                   proposals, coverage, booked, returned>>

\* one round of `while response.stop_reason == "tool_use"`: the assistant's
\* tool calls are added, the tools run, their results are added as a user
\* message, and the history is sent again
Agent_ToolUse ==
    /\ phase = "awaiting"
    /\ ToolRoundsAtEnd(Agent_get_conversation(conversations, query.user_id))
           < MaxToolRounds
    /\ LET called == Agent_add_message(conversations, query.user_id,
                                       "assistant", "tool_use")
           convs == Agent_add_message(called, query.user_id, "user", "tool_result")
       IN  /\ conversations' = convs
           /\ query' = [user_id |-> query.user_id,
                        messages |-> Agent_get_conversation(convs, query.user_id)]
    /\ phase' = "awaiting"
    /\ UNCHANGED <<variant, config, week_start, events, available, analysis,
                   proposals, coverage, booked, returned>>

\* the response that ends the loop: its content is added and its text returned
Agent_FinalResponse ==
    /\ phase = "awaiting"
    /\ conversations' = Agent_add_message(conversations, query.user_id,
                                          "assistant", "text")
    /\ returned' = "text"
    /\ phase' = "replied"
    /\ UNCHANGED <<variant, config, week_start, events, query, available, analysis,
                   proposals, coverage, booked>>

AgentInit ==
    /\ variant = "apps"
    /\ config \in { c \in Configs("apps") :
                      c.activities = RunOnly("apps") /\ DOMAIN c.template = {} }
    /\ week_start = 0
    /\ events = <<>>
    /\ phase = "init"
    /\ query = <<>>
    /\ available = <<>>
    /\ analysis = <<>>
    /\ proposals = <<>>
    /\ coverage = <<>>
    /\ booked = 0
    /\ returned = <<>>
    /\ conversations = <<>>

AgentNext ==
    \/ Agent_Chat
    \/ Agent_ToolUse
    \/ Agent_FinalResponse

AgentSpec == AgentInit /\ [][AgentNext]_vars

-----------------------------------------------------------------------------
(* C30 *)

StoredHistories == { conversations[u] : u \in DOMAIN conversations }

\* a list of messages begins with a message of the user that is not a
\* tool_result left without the tool_use it answers
BeginsWithUserMessage(messages) ==
    /\ messages # <<>>
    /\ messages[1].role = "user"
    /\ messages[1].content # "tool_result"

\* C30: after any sequence of chat turns (a user message, any number of
\* (assistant tool call, user tool result) pairs, a final assistant message)
\* the stored history of a user never exceeds 40 messages, and the list of
\* messages sent to the model always begins with a user message that is not an
\* orphaned tool result.
C30_HistoryBoundedAndWellBegun ==
    /\ \A conv \in StoredHistories : Len(conv) <= 40
    /\ phase = "awaiting" => BeginsWithUserMessage(query.messages)

\* what holds: the stored history never exceeds 40 messages, and the list
\* sent is the stored history, which ends with the user's message or the
\* tool results
C30_HistoryBounded ==
    /\ \A conv \in StoredHistories : Len(conv) <= 40
    /\ phase = "awaiting" =>
          /\ query.messages = conversations[query.user_id]
          /\ query.messages[Len(query.messages)].role = "user"

\* a history that had been trimmed to its last 40 messages was sent, beginning
\* with the assistant's tool calls left over from a dropped user message
C30_TrimmedHistorySent ==
    /\ phase = "awaiting"
    /\ Len(query.messages) = 40
    /\ query.messages[1] = Message("assistant", "tool_use")
    /\ query.messages[2] = Message("user", "tool_result")

\* what is sent before the history is full begins with the user's first message
C30_ShortHistoryWellBegun ==
    (phase = "awaiting" /\ Len(query.messages) < 40) =>
        BeginsWithUserMessage(query.messages)

=============================================================================
